---- MODULE Spec2Model ----
(***************************************************************************)
(* Transport layer of the Easun inverter integration.                      *)
(*                                                                         *)
(*   SpecBulk  : AsyncPIClient.send_bulk (easunpy/async_piclient.py), the  *)
(*               PI-17 bulk pipeline, called by NumCalls callers that may  *)
(*               overlap and may be cancelled from outside.                *)
(*   SpecAscii : AsyncAsciiClient (easunpy/async_asciiclient.py): connect, *)
(*               disconnect, send_command and the reverse-connection       *)
(*               callback, called by NumTasks cooperative tasks.           *)
(***************************************************************************)
EXTENDS Integers, Sequences, FiniteSets, TLC

\* ---- bounds -------------------------------------------------------------
NumCalls == 2      \* send_bulk invocations (callers)
MaxCmds == 2       \* longest command list handed to send_bulk
MaxRetry == 2      \* largest retry_count handed to send_bulk
MaxConns == 2      \* reverse connections the inverter makes to the PI client
NumTasks == 2      \* tasks using one AsyncAsciiClient
MaxOps == 2        \* operations each task starts on the AsyncAsciiClient
MaxInbound == 3    \* inbound connections reaching the AsyncAsciiClient listener
MaxGroups == 3     \* register groups of one AsyncISolar._read_registers_bulk call
MaxAllocations == 65538  \* transaction ids an AsyncISolar hands out in its life
NumSnapshots == 2  \* distinct non-empty snapshots a DataCollector cycle can store
MaxFailedCycles == 7  \* failed poll cycles in a row the DataCollector goes through
MaxWords == 2      \* 16-bit words in the payload of one binary response
MaxRegisterCount == 3  \* register_count asked of decode_modbus_response
MaxRegisters == 4  \* entries of a generated register map
MaxPolls == 3      \* invocations of update_data_collector by the scheduler
MaxTime == 45      \* seconds the scheduler is followed for
TimeStep == 5      \* seconds between two readings of the clock
MaxSendRetries == 3  \* retry_count given to ModbusClient.send
MaxFrameBytes == 11  \* bytes of the response the inverter sends to ModbusClient.send

\* `None` for a reader/writer handle; connections are numbered from 1.
NoConn == 0

Calls == 1..NumCalls
Tasks == 1..NumTasks

VARIABLES
    \* ---- AsyncPIClient (fields inherited from AsyncModbusClient) ----
    pi_lock,                    \* self._lock: the call holding it, 0 when free
    pi_connection_established,  \* self._connection_established
    pi_writer,                  \* self._writer / self._reader: the connection they wrap
    writer_closing,             \* self._writer.is_closing()
    pi_conns,                   \* reverse connections accepted so far
    pi_pc,                      \* position of each send_bulk call
    \* ---- arguments and locals of the call that holds the lock; they stay
    \* ---- as the call left them until the next call takes the lock
    commands,                   \* len(commands)
    retry_count,                \* retry_count
    attempt,                    \* the loop variable of `for attempt in range(retry_count)`
    idx,                        \* commands of this attempt the inner loop has gone through
    responses,                  \* the list `responses` (indices of the answered commands)
    outcome,                    \* "pending" | "returned" | "raised" | "cancelled"
    returned,                   \* the list the call returned
    \* ---- observation of that call (history) ----
    wire,                       \* writes and reads of the current attempt, in order
    attempts_started,           \* attempts that got past _ensure_connection
    cmd_failed,                 \* some attempt of the call lost a command
    flag_at_end,                \* _connection_established when the call ended
    writer_invalid,             \* the connection saw an I/O error or short read
    writer_tainted,             \* the connection was in use when a call was cancelled
    \* ---- AsyncAsciiClient ----
    ac_lock,                    \* self._lock: the task holding it, 0 when free
    connection_established,     \* self._connection_established.is_set()
    reader,                     \* self._reader
    writer,                     \* self._writer
    server,                     \* self._server: "None" | "listening"
    arrived,                    \* inbound connections that reached the listener
    closed,                     \* inbound connections this side has closed
    \* ---- one record per task ----
    stack,                      \* call stack: the coroutines the task is inside
    ac_pc,                      \* position inside the innermost coroutine
    ac_outcome,                 \* how the task's last operation ended
    ops,                        \* operations the task has started
    \* ---- observation of the session (history) ----
    udp_sent,                   \* discovery datagrams sent so far
    disconnects,                \* disconnect() calls completed since the last listener was opened
    \* ---- AsyncISolar ----
    transaction_id,             \* self._transaction_id
    requests,                   \* transaction ids of the requests of the last bulk batch
    allocated,                  \* ids handed out since construction (history)
    \* ---- DataCollector ----
    data,                       \* self._data: 0 for {}, else the snapshot stored
    consecutive_failures,       \* self._consecutive_failures
    dc_lock,                    \* self._lock is held
    dc_pc,                      \* "idle" | "updating": a poll cycle is under way
    failed_cycles,              \* poll cycles that failed since the last success (history)
    last_cycle,                 \* how the last cycle ended (history)
    \* ---- frame codec (modbusclient.create_request, decode_modbus_response) ----
    request,                    \* arguments of create_request
    response,                   \* the hex string handed to decode_modbus_response
    decode_args,                \* register_count, data_format, is_ascii
    decoded,                    \* what decode_modbus_response returned
    codec_pc,                   \* "off" | "encode" | "decode" | "done"
    \* ---- AsyncISolar.get_all_data ----
    protocol,                   \* model_config.protocol: "numerical" | "ascii"
    register_map,               \* model_config.register_map: entries in dict order
    register_groups,            \* the (start, count) spans of _create_register_groups
    bulk,                       \* what client.send_bulk gives _read_registers_bulk
    results,                    \* decoded_groups: one entry per register group
    command_responses,          \* the dict of _query_ascii_commands: command -> text
    values,                     \* the dict `values`: register name -> processed value
    decoded_keys,               \* keys of `values` whose value came off the wire (history)
    all_data,                   \* what get_all_data returned
    snap_pc,                    \* "off" | "groups" | "read" | ... : position in get_all_data

    \* ---- the QPIGS parsers ----
    qpigs_raw,                  \* the response text handed to a parser
    qpigs_parser,               \* which parser was applied
    qpigs_parsed,               \* what it returned or raised
    parse_pc,                   \* "off" | "ready" | "done"

    \* ---- model selection ----
    entry_version,              \* config_entry.version
    entry_model,                \* config_entry.data["model"], "missing" without one
    configured,                 \* the model id the entry was created with (history)
    model,                      \* AsyncISolar.model, "none" before construction
    model_config,               \* AsyncISolar.model_config
    asked,                      \* the id of the last selection (history)
    select_outcome,             \* "none" | "selected" | the exception (history)
    model_before,               \* <<model, model_config>> before the last selection

    \* ---- the poll scheduler (sensor.async_setup_entry) ----
    clock,                      \* datetime.now(), in seconds
    is_updating,                \* the nonlocal flag of update_data_collector
    last_update_start,          \* data_collector._last_update_start, NoTime for None
    update_lock,                \* data_collector._lock: the invocation holding it, 0 when free
    polls,                      \* one record per invocation of update_data_collector

    \* ---- the checksum bytes of an ASCII frame ----
    crc_value,                  \* the 16-bit value crc16_xmodem gave the encoder
    crc_placed,                 \* crc_high, crc_low and the CR after them; <<>> before

    \* ---- the client of AsyncISolar ----
    client_connected,           \* self.client._connection_established

    \* ---- ModbusClient.send ----
    mc_retry_count,             \* retry_count
    mc_attempt,                 \* the loop variable of `for attempt in range(retry_count)`
    mc_pc,                      \* position inside send
    mc_listening,               \* tcp_server is bound and listening
    mc_datagrams,               \* discovery datagrams sent in this attempt (history)
    mc_blind,                   \* datagrams sent while nothing was listening (history)
    mc_received,                \* len(response)
    mc_result,                  \* "pending" | "response" | "" (all attempts failed)
    mc_log                      \* the last line logged for a failed attempt

piVars == <<pi_lock, pi_connection_established, pi_writer, writer_closing,
            pi_conns, pi_pc, commands, retry_count, attempt, idx, responses,
            outcome, returned, wire, attempts_started, cmd_failed, flag_at_end,
            writer_invalid, writer_tainted>>

asciiVars == <<ac_lock, connection_established, reader, writer, server,
               arrived, closed, stack, ac_pc, ac_outcome, ops, udp_sent,
               disconnects>>

idVars == <<transaction_id, requests, allocated>>

dcVars == <<data, consecutive_failures, dc_lock, dc_pc, failed_cycles,
            last_cycle>>

codecVars == <<request, response, decode_args, decoded, codec_pc>>

snapVars == <<protocol, register_map, register_groups, bulk, results,
              command_responses, values, decoded_keys, all_data, snap_pc>>

qpigsVars == <<qpigs_raw, qpigs_parser, qpigs_parsed, parse_pc>>

modelVars == <<entry_version, entry_model, configured, model, model_config,
               asked, select_outcome, model_before>>

schedVars == <<clock, is_updating, last_update_start, update_lock, polls>>

crcVars == <<crc_value, crc_placed>>

clientVars == <<client_connected>>

mcVars == <<mc_retry_count, mc_attempt, mc_pc, mc_listening, mc_datagrams,
            mc_blind, mc_received, mc_result, mc_log>>

vars == <<piVars, asciiVars, idVars, dcVars, codecVars, snapVars,
         qpigsVars, modelVars, schedVars, crcVars, clientVars, mcVars>>

\* What the steps of one object leave alone: the state of everything else.
notPI == <<asciiVars, idVars, dcVars, codecVars, snapVars,
           qpigsVars, modelVars, schedVars, crcVars, clientVars, mcVars>>
notAscii == <<piVars, idVars, dcVars, codecVars, snapVars,
              qpigsVars, modelVars, schedVars, crcVars, clientVars, mcVars>>
notIds == <<piVars, asciiVars, dcVars, codecVars, snapVars,
            qpigsVars, modelVars, schedVars, crcVars, clientVars, mcVars>>
notDC == <<piVars, asciiVars, idVars, codecVars, snapVars,
           qpigsVars, modelVars, schedVars, crcVars, clientVars, mcVars>>
notCodec == <<piVars, asciiVars, idVars, dcVars, snapVars,
              qpigsVars, modelVars, schedVars, crcVars, clientVars, mcVars>>
notSnap == <<piVars, asciiVars, idVars, dcVars, codecVars,
             qpigsVars, modelVars, schedVars, crcVars, clientVars, mcVars>>
notSnapIds == <<piVars, asciiVars, dcVars, codecVars, qpigsVars,
                modelVars, schedVars, crcVars, mcVars>>
notQpigs == <<piVars, asciiVars, idVars, dcVars, codecVars,
              snapVars, modelVars, schedVars, crcVars, clientVars, mcVars>>
notModel == <<piVars, asciiVars, idVars, dcVars, codecVars,
              snapVars, qpigsVars, schedVars, crcVars, clientVars, mcVars>>
notSched == <<piVars, asciiVars, idVars, dcVars, codecVars,
              snapVars, qpigsVars, modelVars, crcVars, clientVars, mcVars>>
notCrc == <<piVars, asciiVars, idVars, dcVars, codecVars,
            snapVars, qpigsVars, modelVars, schedVars, clientVars, mcVars>>
notClient == <<piVars, asciiVars, idVars, dcVars, codecVars,
               snapVars, qpigsVars, modelVars, schedVars, crcVars, mcVars>>
notModbus == <<piVars, asciiVars, idVars, dcVars, codecVars,
               snapVars, qpigsVars, modelVars, schedVars, crcVars, clientVars>>

\* ========================================================================
\*  AsyncPIClient.send_bulk
\* ========================================================================

InitPI ==
    /\ pi_lock = 0
    /\ pi_connection_established = FALSE
    /\ pi_writer = NoConn
    /\ writer_closing = FALSE
    /\ pi_conns = 0
    /\ pi_pc = [t \in Calls |-> "idle"]
    /\ commands = 0
    /\ retry_count = 0
    /\ attempt = 0
    /\ idx = 0
    /\ responses = <<>>
    /\ outcome = "pending"
    /\ returned = <<>>
    /\ wire = <<>>
    /\ attempts_started = 0
    /\ cmd_failed = FALSE
    /\ flag_at_end = FALSE
    /\ writer_invalid = FALSE
    /\ writer_tainted = FALSE

\* What every way of leaving send_bulk has in common: `async with` releases
\* the lock and the call is over.
LeaveBulk(t, how, value) ==
    /\ pi_lock' = 0
    /\ pi_pc' = [pi_pc EXCEPT ![t] = "done"]
    /\ outcome' = how
    /\ returned' = value
    /\ flag_at_end' = pi_connection_established

\* send_bulk(commands, retry_count) is called; the caller queues on the lock.
SendBulk(t) ==
    /\ pi_pc[t] = "idle"
    /\ pi_pc' = [pi_pc EXCEPT ![t] = "lock"]
    /\ UNCHANGED <<notPI, pi_lock, pi_connection_established, pi_writer,
                   writer_closing, pi_conns, commands, retry_count, attempt,
                   idx, responses, outcome, returned, wire, attempts_started,
                   cmd_failed, flag_at_end, writer_invalid, writer_tainted>>

\* async with self._lock: the call gets the lock and enters the attempt loop
\* with its arguments.
AcquireBulkLock(t) ==
    /\ pi_pc[t] = "lock"
    /\ pi_lock = 0
    /\ pi_lock' = t
    /\ \E n \in 0..MaxCmds, r \in 0..MaxRetry :
        /\ commands' = n
        /\ retry_count' = r
    /\ attempt' = 0
    /\ idx' = 0
    /\ responses' = <<>>
    /\ outcome' = "pending"
    /\ returned' = <<>>
    /\ wire' = <<>>
    /\ attempts_started' = 0
    /\ cmd_failed' = FALSE
    /\ flag_at_end' = FALSE
    /\ pi_pc' = [pi_pc EXCEPT ![t] = "for_attempt"]
    /\ UNCHANGED <<notPI, pi_connection_established, pi_writer, writer_closing,
                   pi_conns, writer_invalid, writer_tainted>>

\* `responses: list[str] = []` at the top of every attempt.
FreshResponses_Kept(collected) == collected

FreshResponses(collected) == <<>>

\* The attempt starts: responses = [] and the inner loop is at its first command.
StartBatch(t) ==
    /\ responses' = FreshResponses(responses)
    /\ idx' = 0
    /\ wire' = <<>>
    /\ attempts_started' = attempts_started + 1
    /\ pi_pc' = [pi_pc EXCEPT ![t] = "for_cmd"]

\* AsyncModbusClient._ensure_connection(): nothing to do on a connected
\* session; otherwise the handshake (listener, UDP datagram, wait for the
\* reverse connection), after which reader and writer wrap the new connection
\* (ok) or the session stays not connected (~ok).
EnsureConnection(ok) ==
    \/ /\ ok
       /\ pi_connection_established
       /\ UNCHANGED <<pi_connection_established, pi_writer, pi_conns,
                      writer_closing, writer_invalid, writer_tainted>>
    \/ /\ ok
       /\ ~pi_connection_established
       /\ pi_conns < MaxConns
       /\ pi_conns' = pi_conns + 1
       /\ pi_writer' = pi_conns + 1
       /\ pi_connection_established' = TRUE
       /\ writer_closing' = FALSE
       /\ writer_invalid' = FALSE
       /\ writer_tainted' = FALSE
    \/ /\ ~ok
       /\ ~pi_connection_established
       /\ UNCHANGED <<pi_connection_established, pi_writer, pi_conns,
                      writer_closing, writer_invalid, writer_tainted>>

\* await self._ensure_connection() is true: responses = [] and on to the
\* commands.
AttemptConnected(t) ==
    /\ pi_pc[t] = "for_attempt"
    /\ attempt < retry_count
    /\ EnsureConnection(TRUE)
    /\ StartBatch(t)
    /\ UNCHANGED <<notPI, pi_lock, commands, retry_count, attempt, outcome,
                   returned, cmd_failed, flag_at_end>>

\* if not await self._ensure_connection(): sleep(1); continue
AttemptNotConnected(t) ==
    /\ pi_pc[t] = "for_attempt"
    /\ attempt < retry_count
    /\ EnsureConnection(FALSE)
    /\ attempt' = attempt + 1
    /\ UNCHANGED <<notPI, pi_lock, pi_pc, commands, retry_count, idx,
                   responses, outcome, returned, wire, attempts_started,
                   cmd_failed, flag_at_end>>

\* range(retry_count) is exhausted: return []
RetriesExhausted(t) ==
    /\ pi_pc[t] = "for_attempt"
    /\ attempt >= retry_count
    /\ LeaveBulk(t, "returned", <<>>)
    /\ UNCHANGED <<notPI, pi_connection_established, pi_writer, writer_closing,
                   pi_conns, commands, retry_count, attempt, idx, responses,
                   wire, attempts_started, cmd_failed, writer_invalid,
                   writer_tainted>>

\* if self._writer.is_closing(): self._connection_established = False; break
WriterClosing(t) ==
    /\ pi_pc[t] = "for_cmd"
    /\ idx < commands
    /\ writer_closing
    /\ pi_connection_established' = FALSE
    /\ cmd_failed' = TRUE
    /\ pi_pc' = [pi_pc EXCEPT ![t] = "after_loop"]
    /\ UNCHANGED <<notPI, pi_lock, pi_writer, writer_closing, pi_conns,
                   commands, retry_count, attempt, idx, responses, outcome,
                   returned, wire, attempts_started, flag_at_end,
                   writer_invalid, writer_tainted>>

\* Where the call stands once writer.write(line) and drain() are through: at
\* the await of readuntil, the loop not advanced.
AfterWrite_NoAwait(t) ==
    /\ idx' = idx + 1
    /\ UNCHANGED pi_pc

AfterWrite(t) ==
    /\ pi_pc' = [pi_pc EXCEPT ![t] = "readuntil"]
    /\ UNCHANGED idx

\* self._writer.write(line); await self._writer.drain()
WriteCommand(t) ==
    /\ pi_pc[t] = "for_cmd"
    /\ idx < commands
    /\ ~writer_closing
    /\ wire' = Append(wire, <<"write", idx + 1>>)
    /\ AfterWrite(t)
    /\ UNCHANGED <<notPI, pi_lock, pi_connection_established, pi_writer,
                   writer_closing, pi_conns, commands, retry_count, attempt,
                   responses, outcome, returned, attempts_started, cmd_failed,
                   flag_at_end, writer_invalid, writer_tainted>>

\* The inner loop has gone through every command.
LoopDone(t) ==
    /\ pi_pc[t] = "for_cmd"
    /\ idx >= commands
    /\ pi_pc' = [pi_pc EXCEPT ![t] = "after_loop"]
    /\ UNCHANGED <<notPI, pi_lock, pi_connection_established, pi_writer,
                   writer_closing, pi_conns, commands, retry_count, attempt,
                   idx, responses, outcome, returned, wire, attempts_started,
                   cmd_failed, flag_at_end, writer_invalid, writer_tainted>>

\* The text that readuntil delivers while the call waits for the reply to
\* command i: what was read in this attempt, on this connection, right after
\* command i was written.
Reply(i) == <<attempts_started, pi_writer, i>>

\* readuntil(b"\r") delivers the reply within 5 s: responses.append(txt),
\* then the pacing sleep and the next command.
ReadReply(t) ==
    /\ pi_pc[t] = "readuntil"
    /\ responses' = Append(responses, Reply(idx + 1))
    /\ wire' = Append(wire, <<"read", idx + 1>>)
    /\ idx' = idx + 1
    /\ pi_pc' = [pi_pc EXCEPT ![t] = "for_cmd"]
    /\ UNCHANGED <<notPI, pi_lock, pi_connection_established, pi_writer,
                   writer_closing, pi_conns, commands, retry_count, attempt,
                   outcome, returned, attempts_started, cmd_failed,
                   flag_at_end, writer_invalid, writer_tainted>>

\* The flag as the handler of (IncompleteReadError, TimeoutError) leaves it.
FlagAfterExchangeFailed_Kept == pi_connection_established

FlagAfterExchangeFailed == FALSE

\* except (IncompleteReadError, TimeoutError): the read timed out (short =
\* FALSE) or hit EOF before the CR (short = TRUE); on to the next attempt.
ExchangeFailed(t) ==
    /\ pi_pc[t] = "readuntil"
    /\ \E short \in BOOLEAN : writer_invalid' = (writer_invalid \/ short)
    /\ pi_connection_established' = FlagAfterExchangeFailed
    /\ cmd_failed' = TRUE
    /\ attempt' = attempt + 1
    /\ pi_pc' = [pi_pc EXCEPT ![t] = "for_attempt"]
    /\ UNCHANGED <<notPI, pi_lock, pi_writer, writer_closing, pi_conns,
                   commands, retry_count, idx, responses, outcome, returned,
                   wire, attempts_started, flag_at_end, writer_tainted>>

\* readuntil raises an error the handler does not name (ConnectionResetError
\* when the peer resets the connection): it leaves send_bulk as an exception.
ExchangeError(t) ==
    /\ pi_pc[t] = "readuntil"
    /\ LeaveBulk(t, "raised", <<>>)
    /\ cmd_failed' = TRUE
    /\ writer_invalid' = TRUE
    /\ UNCHANGED <<notPI, pi_connection_established, pi_writer, writer_closing,
                   pi_conns, commands, retry_count, attempt, idx, responses,
                   wire, attempts_started, writer_tainted>>

\* len(responses) == len(commands)
FullBatch_Any(resp, n) == TRUE

FullBatch(resp, n) == Len(resp) = n

\* if len(responses) == len(commands): return responses
ReturnResponses(t) ==
    /\ pi_pc[t] = "after_loop"
    /\ FullBatch(responses, commands)
    /\ LeaveBulk(t, "returned", responses)
    /\ UNCHANGED <<notPI, pi_connection_established, pi_writer, writer_closing,
                   pi_conns, commands, retry_count, attempt, idx, responses,
                   wire, attempts_started, cmd_failed, writer_invalid,
                   writer_tainted>>

\* ... otherwise the body of the attempt loop ends and the next attempt starts.
NextAttempt(t) ==
    /\ pi_pc[t] = "after_loop"
    /\ ~FullBatch(responses, commands)
    /\ attempt' = attempt + 1
    /\ pi_pc' = [pi_pc EXCEPT ![t] = "for_attempt"]
    /\ UNCHANGED <<notPI, pi_lock, pi_connection_established, pi_writer,
                   writer_closing, pi_conns, commands, retry_count, idx,
                   responses, outcome, returned, wire, attempts_started,
                   cmd_failed, flag_at_end, writer_invalid, writer_tainted>>

\* The caller's timeout fires (DataCollector.update_data: update_task.cancel())
\* while the call waits for a reply: CancelledError is not among the
\* exceptions the handler names, so it leaves send_bulk through `async with`.
CancelBulk(t) ==
    /\ pi_pc[t] = "readuntil"
    /\ LeaveBulk(t, "cancelled", <<>>)
    /\ writer_tainted' = TRUE
    /\ UNCHANGED <<notPI, pi_connection_established, pi_writer, writer_closing,
                   pi_conns, commands, retry_count, attempt, idx, responses,
                   wire, attempts_started, cmd_failed, writer_invalid>>

\* The inverter closes its end: the writer's transport is closing from now on.
PeerCloses ==
    /\ pi_writer # NoConn
    /\ ~writer_closing
    /\ writer_closing' = TRUE
    /\ UNCHANGED <<notPI, pi_lock, pi_connection_established, pi_writer,
                   pi_conns, pi_pc, commands, retry_count, attempt, idx,
                   responses, outcome, returned, wire, attempts_started,
                   cmd_failed, flag_at_end, writer_invalid, writer_tainted>>

NextBulk ==
    \/ \E t \in Calls :
        \/ SendBulk(t)
        \/ AcquireBulkLock(t)
        \/ AttemptConnected(t)
        \/ AttemptNotConnected(t)
        \/ RetriesExhausted(t)
        \/ WriterClosing(t)
        \/ WriteCommand(t)
        \/ LoopDone(t)
        \/ ReadReply(t)
        \/ ExchangeFailed(t)
        \/ ExchangeError(t)
        \/ ReturnResponses(t)
        \/ NextAttempt(t)
        \/ CancelBulk(t)
    \/ PeerCloses

\* ========================================================================
\*  AsyncAsciiClient
\* ========================================================================

InitAscii ==
    /\ ac_lock = 0
    /\ connection_established = FALSE
    /\ reader = NoConn
    /\ writer = NoConn
    /\ server = "None"
    /\ arrived = 0
    /\ closed = {}
    /\ stack = [t \in Tasks |-> <<>>]
    /\ ac_pc = [t \in Tasks |-> "idle"]
    /\ ac_outcome = [t \in Tasks |-> "none"]
    /\ ops = [t \in Tasks |-> 0]
    /\ udp_sent = 0
    /\ disconnects = 0

Top(t) == stack[t][Len(stack[t])]

\* A coroutine returns or raises: its frame is popped. With no caller left the
\* operation is over; otherwise the caller resumes after its `await`.
Return(t, how) ==
    /\ stack' = [stack EXCEPT ![t] = SubSeq(@, 1, Len(@) - 1)]
    /\ ac_pc' = [ac_pc EXCEPT ![t] = IF Len(stack[t]) = 1 THEN "done" ELSE "resume"]
    /\ ac_outcome' = [ac_outcome EXCEPT ![t] = how]

\* A task calls connect(), disconnect() or send_command(); each starts with
\* `async with self._lock`.
CallAscii(t) ==
    /\ ac_pc[t] \in {"idle", "done"}
    /\ ops[t] < MaxOps
    /\ \E f \in {"connect", "disconnect", "send_command"} :
        stack' = [stack EXCEPT ![t] = <<f>>]
    /\ ac_pc' = [ac_pc EXCEPT ![t] = "lock"]
    /\ ac_outcome' = [ac_outcome EXCEPT ![t] = "none"]
    /\ ops' = [ops EXCEPT ![t] = @ + 1]
    /\ UNCHANGED <<notAscii, udp_sent, disconnects,
                   ac_lock, connection_established, reader, writer, server,
                   arrived, closed>>

\* asyncio.Lock.acquire() goes through only while the lock is not held, also
\* when the holder is the task that asks.
CanAcquire_NoGate(l) == TRUE

CanAcquire(l) == l = 0

\* send_command on a session that is not connected: await self.connect(),
\* with the lock held.
SendCommandConnects(t) ==
    /\ ac_pc[t] = "lock" /\ Top(t) = "send_command"
    /\ CanAcquire(ac_lock)
    /\ ~connection_established \/ writer = NoConn \/ reader = NoConn
    /\ ac_lock' = t
    /\ stack' = [stack EXCEPT ![t] = Append(@, "connect")]
    /\ UNCHANGED <<notAscii, udp_sent, disconnects,
                   connection_established, reader, writer, server, arrived,
                   closed, ac_pc, ac_outcome, ops>>

\* send_command on a connected session: _build_command_packet takes the
\* un-awaited coroutine of the async _get_next_transaction_id as trans_id and
\* shifts it, a TypeError; `async with` releases the lock, nothing is written.
SendCommandBuildPacket(t) ==
    /\ ac_pc[t] = "lock" /\ Top(t) = "send_command"
    /\ CanAcquire(ac_lock)
    /\ connection_established /\ writer # NoConn /\ reader # NoConn
    /\ ac_lock' = 0
    /\ Return(t, "TypeError")
    /\ UNCHANGED <<notAscii, udp_sent, disconnects,
                   connection_established, reader, writer, server, arrived,
                   closed, ops>>

\* `if self._connection_established.is_set(): return`, the first statement of
\* connect() under the lock.
AlreadyConnected_Never(established) == FALSE

AlreadyConnected(established) == established

\* connect() on a connected session: return.
ConnectNoop(t) ==
    /\ ac_pc[t] = "lock" /\ Top(t) = "connect"
    /\ CanAcquire(ac_lock)
    /\ AlreadyConnected(connection_established)
    /\ ac_lock' = 0
    /\ Return(t, "returned")
    /\ UNCHANGED <<notAscii, udp_sent, disconnects,
                   connection_established, reader, writer, server, arrived,
                   closed, ops>>

\* connect() on a session that is not connected takes the lock ...
ConnectEnter(t) ==
    /\ ac_pc[t] = "lock" /\ Top(t) = "connect"
    /\ CanAcquire(ac_lock)
    /\ ~AlreadyConnected(connection_established)
    /\ ac_lock' = t
    /\ ac_pc' = [ac_pc EXCEPT ![t] = "start_server"]
    /\ UNCHANGED <<notAscii, udp_sent, disconnects,
                   connection_established, reader, writer, server, arrived,
                   closed, stack, ac_outcome, ops>>

\* ... self._server = await asyncio.start_server(...)
StartServer(t) ==
    /\ ac_pc[t] = "start_server"
    /\ server' = "listening"
    /\ disconnects' = 0
    /\ ac_pc' = [ac_pc EXCEPT ![t] = "send_udp"]
    /\ UNCHANGED <<notAscii, udp_sent, ac_lock, connection_established, reader, writer, arrived,
                   closed, stack, ac_outcome, ops>>

\* ... transport.sendto(udp_message)
SendDiscovery(t) ==
    /\ ac_pc[t] = "send_udp"
    /\ udp_sent' = udp_sent + 1
    /\ ac_pc' = [ac_pc EXCEPT ![t] = "wait"]
    /\ UNCHANGED <<notAscii, disconnects, ac_lock, connection_established, reader, writer, server,
                   arrived, closed, stack, ac_outcome, ops>>

\* ... wait_for(self._connection_established.wait(), 15) returns: connect()
\* is through.
ConnectEstablished(t) ==
    /\ ac_pc[t] = "wait"
    /\ connection_established
    /\ ac_lock' = 0
    /\ Return(t, "returned")
    /\ UNCHANGED <<notAscii, udp_sent, disconnects,
                   connection_established, reader, writer, server, arrived,
                   closed, ops>>

\* ... or the 15 s pass: except asyncio.TimeoutError: await self.disconnect(),
\* still inside `async with self._lock`.
ConnectTimeout(t) ==
    /\ ac_pc[t] = "wait"
    /\ ~connection_established
    /\ stack' = [stack EXCEPT ![t] = Append(@, "disconnect")]
    /\ ac_pc' = [ac_pc EXCEPT ![t] = "lock"]
    /\ UNCHANGED <<notAscii, udp_sent, disconnects,
                   ac_lock, connection_established, reader, writer, server,
                   arrived, closed, ac_outcome, ops>>

\* disconnect() takes the lock; if self._writer: close() and wait_closed().
DisconnectEnter(t) ==
    /\ ac_pc[t] = "lock" /\ Top(t) = "disconnect"
    /\ CanAcquire(ac_lock)
    /\ ac_lock' = t
    /\ closed' = IF writer # NoConn THEN closed \cup {writer} ELSE closed
    /\ ac_pc' = [ac_pc EXCEPT ![t] = "close_server"]
    /\ UNCHANGED <<notAscii, udp_sent, disconnects,
                   connection_established, reader, writer, server, arrived,
                   stack, ac_outcome, ops>>

\* self._connection_established.clear(): the event is unset whatever it was.
EventClear_Noop(established) == established

EventClear(established) == FALSE

\* self._reader = None; self._writer = None
HandleAfterDisconnect_Kept(handle) == handle

HandleAfterDisconnect(handle) == NoConn

\* if self._server: close() and wait_closed(); then the handles and the event
\* are cleared and the lock is released.
DisconnectFinish(t) ==
    /\ ac_pc[t] = "close_server"
    /\ reader' = HandleAfterDisconnect(reader)
    /\ writer' = HandleAfterDisconnect(writer)
    /\ server' = "None"
    /\ connection_established' = EventClear(connection_established)
    /\ ac_lock' = 0
    /\ disconnects' = disconnects + 1
    /\ Return(t, "returned")
    /\ UNCHANGED <<notAscii, udp_sent, arrived, closed, ops>>

\* _handle_connection adopts the inbound connection unless the event is set.
AdoptsInbound_Always(established) == TRUE

AdoptsInbound(established) == ~established

\* The listener accepts an inbound connection and runs _handle_connection.
InboundConnection ==
    /\ server = "listening"
    /\ arrived < MaxInbound
    /\ arrived' = arrived + 1
    /\ IF AdoptsInbound(connection_established)
         THEN /\ reader' = arrived + 1
              /\ writer' = arrived + 1
              /\ connection_established' = TRUE
              /\ UNCHANGED closed
         ELSE /\ closed' = closed \cup {arrived + 1}
              /\ UNCHANGED <<notAscii, udp_sent, disconnects,
                   reader, writer, connection_established>>
    /\ UNCHANGED <<notAscii, udp_sent, disconnects,
                   ac_lock, server, stack, ac_pc, ac_outcome, ops>>

NextAscii ==
    \/ \E t \in Tasks :
        \/ CallAscii(t)
        \/ SendCommandConnects(t)
        \/ SendCommandBuildPacket(t)
        \/ ConnectNoop(t)
        \/ ConnectEnter(t)
        \/ StartServer(t)
        \/ SendDiscovery(t)
        \/ ConnectEstablished(t)
        \/ ConnectTimeout(t)
        \/ DisconnectEnter(t)
        \/ DisconnectFinish(t)
    \/ InboundConnection

\* ========================================================================
\*  AsyncISolar: transaction ids
\* ========================================================================

\* self._transaction_id = 0x0772
InitialTransactionId == 1906

\* the mask 0xFFFF of _get_next_transaction_id
IdMask == 65535

InitIds ==
    /\ transaction_id = InitialTransactionId
    /\ requests = <<>>
    /\ allocated = 0

\* self._transaction_id = (self._transaction_id + 1) & 0xFFFF; the mask keeps
\* the low 16 bits.
NextTransactionId_NoWrap(id) == id + 1

NextTransactionId(id) == (id + 1) % (IdMask + 1)

\* The list comprehension of _read_registers_bulk: one call of
\* _get_next_transaction_id per register group, each returning the current id
\* and advancing the counter. The result is <<ids handed out, counter after>>.
RECURSIVE AllocateIds(_, _)
AllocateIds(id, n) ==
    IF n = 0 THEN <<(<<>>), id>>
    ELSE LET rest == AllocateIds(NextTransactionId(id), n - 1)
         IN  <<(<<id>>) \o rest[1], rest[2]>>

\* _read_registers_bulk builds the requests of one batch; nothing is awaited
\* between the allocations.
ReadRegistersBulk ==
    \E n \in 0..MaxGroups :
        /\ allocated + n <= MaxAllocations
        /\ LET a == AllocateIds(transaction_id, n)
           IN  /\ requests' = a[1]
               /\ transaction_id' = a[2]
        /\ allocated' = allocated + n
        /\ UNCHANGED notIds

NextIds == ReadRegistersBulk

\* ========================================================================
\*  DataCollector: poll cycles
\* ========================================================================

\* self._max_consecutive_failures = 5
max_consecutive_failures == 5

InitDC ==
    /\ data = 0
    /\ consecutive_failures = 0
    /\ dc_lock = FALSE
    /\ dc_pc = "idle"
    /\ failed_cycles = 0
    /\ last_cycle = "none"

\* The scheduler starts a cycle: update_data takes the lock and creates the
\* task running _do_update.
UpdateData ==
    /\ dc_pc = "idle"
    /\ ~dc_lock
    /\ dc_lock' = TRUE
    /\ dc_pc' = "updating"
    /\ UNCHANGED <<notDC, data, consecutive_failures, failed_cycles, last_cycle>>

\* `finally: self._lock.release()`: the cycle is over.
EndCycle(how) ==
    /\ dc_pc = "updating"
    /\ dc_lock' = FALSE
    /\ dc_pc' = "idle"
    /\ last_cycle' = how

\* _do_update: get_all_data returned at least one sub-record; the snapshot is
\* replaced and the counter reset.
DoUpdateStores(snapshot) ==
    /\ EndCycle("stored")
    /\ data' = snapshot
    /\ consecutive_failures' = 0
    /\ failed_cycles' = 0
    /\ UNCHANGED notDC

DataAfterFailure_Late(failures, old) ==
    IF failures > max_consecutive_failures THEN 0 ELSE old

\* The snapshot after a cycle without data: cleared once the counter has
\* reached _max_consecutive_failures.
DataAfterFailure(failures, old) ==
    IF failures >= max_consecutive_failures THEN 0 ELSE old

\* _do_update: get_all_data returned five None; the counter goes up.
DoUpdateNoData ==
    /\ EndCycle("no data")
    /\ failed_cycles < MaxFailedCycles
    /\ consecutive_failures' = consecutive_failures + 1
    /\ data' = DataAfterFailure(consecutive_failures + 1, data)
    /\ failed_cycles' = failed_cycles + 1
    /\ UNCHANGED notDC

\* wait_for(update_task, 30) times out: the task is cancelled inside
\* get_all_data and update_data raises Exception("Update timed out").
UpdateTimedOut ==
    /\ EndCycle("timed out")
    /\ failed_cycles < MaxFailedCycles
    /\ failed_cycles' = failed_cycles + 1
    /\ UNCHANGED <<notDC, data, consecutive_failures>>

\* get_all_data raises: _do_update ends at its first statement and the
\* exception leaves update_data through the `finally`.
DoUpdateRaises ==
    /\ EndCycle("raised")
    /\ failed_cycles < MaxFailedCycles
    /\ failed_cycles' = failed_cycles + 1
    /\ UNCHANGED <<notDC, data, consecutive_failures>>

NextDC ==
    \/ UpdateData
    \/ \E snapshot \in 1..NumSnapshots : DoUpdateStores(snapshot)
    \/ DoUpdateNoData
    \/ UpdateTimedOut
    \/ DoUpdateRaises

\* ========================================================================
\*  Frame codec: modbusclient.create_request and decode_modbus_response
\* ========================================================================

\* ---- bytes, text and hex strings ----

\* The characters the commands and replies of the model are written in, and
\* their ASCII codes: str.encode('ascii') and bytes.decode('ascii').
Alphabet ==
    {"Q", "P", "I", "G", "S", "M", "O", "D", "B", "2", "0", "(", " ",
     "1", "3", "4", "5", "6", "7", "8", "9", ".", "-", "L", "F", "N", "A"}

Ord(c) ==
    CASE c = "Q" -> 81 [] c = "P" -> 80 [] c = "I" -> 73 [] c = "G" -> 71
      [] c = "S" -> 83 [] c = "M" -> 77 [] c = "O" -> 79 [] c = "D" -> 68
      [] c = "B" -> 66 [] c = "2" -> 50 [] c = "0" -> 48 [] c = "(" -> 40
      [] c = " " -> 32
      [] c = "1" -> 49 [] c = "3" -> 51 [] c = "4" -> 52 [] c = "5" -> 53
      [] c = "6" -> 54 [] c = "7" -> 55 [] c = "8" -> 56 [] c = "9" -> 57
      [] c = "." -> 46 [] c = "-" -> 45 [] c = "L" -> 76 [] c = "F" -> 70
      [] c = "N" -> 78 [] c = "A" -> 65

Chr(b) == CHOOSE c \in Alphabet : Ord(c) = b

EncodeAscii(text) == [i \in 1..Len(text) |-> Ord(text[i])]

\* bytes.decode('ascii') raises UnicodeDecodeError on a byte above 0x7F.
IsAscii(bytes) == \A i \in 1..Len(bytes) : bytes[i] < 128

DecodeAscii(bytes) == [i \in 1..Len(bytes) |-> Chr(bytes[i])]

\* bytes.hex() and bytes.fromhex(): two lower-case hex digits per byte.
HexDigits == <<"0", "1", "2", "3", "4", "5", "6", "7", "8", "9", "a", "b", "c", "d", "e", "f">>

HexValue(d) == (CHOOSE i \in 1..16 : HexDigits[i] = d) - 1

ToHex(bytes) ==
    [i \in 1..(2 * Len(bytes)) |->
        IF i % 2 = 1 THEN HexDigits[(bytes[(i + 1) \div 2] \div 16) + 1]
        ELSE HexDigits[(bytes[i \div 2] % 16) + 1]]

FromHex(hex) ==
    [i \in 1..(Len(hex) \div 2) |-> 16 * HexValue(hex[2 * i - 1]) + HexValue(hex[2 * i])]

\* int.from_bytes(two bytes, 'big')
FromBytesBig(hi, lo) == 256 * hi + lo

\* ---- decode_modbus_response ----

\* What the function returns: a list of values, a text, None, or an exception.
ResultList(words) == [kind |-> "list", values |-> words]
ResultText(text) == [kind |-> "str", values |-> text]
ResultNone == [kind |-> "None", values |-> <<>>]
ResultRaised(error) == [kind |-> error, values |-> <<>>]

\* `return [] if not is_ascii else None`
EmptyResult(is_ascii) == IF is_ascii THEN ResultNone ELSE ResultList(<<>>)

\* if data_format == "Int": if val & 0x8000: val -= 0x10000
SignExtend_Unsigned(val, data_format) == val

SignExtend(val, data_format) ==
    IF data_format = "Int" /\ (val \div 32768) % 2 = 1 THEN val - 65536 ELSE val

\* The loop `for i in range(register_count)`, from index i on: it stops at the
\* first word the data does not hold in full.
RECURSIVE DecodeWords(_, _, _, _)
DecodeWords(data_bytes, i, register_count, data_format) ==
    IF i >= register_count \/ 2 * i + 2 > Len(data_bytes) THEN <<>>
    ELSE <<SignExtend(FromBytesBig(data_bytes[2 * i + 1], data_bytes[2 * i + 2]),
                      data_format)>>
         \o DecodeWords(data_bytes, i + 1, register_count, data_format)

\* The frame is rejected when it is shorter than its header says.
TooShortFor(frame, msg_len) == Len(frame) < 6 + msg_len

DecodeModbusResponse(hex, register_count, data_format, is_ascii) ==
    LET frame == FromHex(hex) IN
    IF Len(frame) < 9 THEN EmptyResult(is_ascii)
    ELSE
    LET msg_len == FromBytesBig(frame[5], frame[6]) IN
    IF TooShortFor(frame, msg_len) THEN EmptyResult(is_ascii)
    ELSE
    LET payload == SubSeq(frame, 7, 6 + msg_len) IN
    IF Len(payload) < 3 THEN EmptyResult(is_ascii)
    ELSE IF is_ascii THEN
        LET data_bytes == SubSeq(payload, 3, Len(payload)) IN
        IF Len(data_bytes) < 3 THEN ResultNone
        ELSE LET text == SubSeq(data_bytes, 1, Len(data_bytes) - 3) IN
             IF IsAscii(text) THEN ResultText(DecodeAscii(text))
             ELSE ResultRaised("UnicodeDecodeError")
    ELSE
        LET data_bytes == SubSeq(payload, 4, Len(payload)) IN
        ResultList(DecodeWords(data_bytes, 0, register_count, data_format))

\* ---- checksums (easunpy.crc) ----

RECURSIVE Xor(_, _)
Xor(a, b) ==
    IF a = 0 THEN b
    ELSE IF b = 0 THEN a
    ELSE 2 * Xor(a \div 2, b \div 2) + ((a + b) % 2)

\* CRC-16/XMODEM: polynomial 0x1021, initial value 0, most significant bit
\* first. One shift of the register:
XmodemStep(crc) ==
    IF crc >= 32768 THEN Xor((2 * crc) % 65536, 4129) ELSE (2 * crc) % 65536

RECURSIVE XmodemShift(_, _)
XmodemShift(crc, n) == IF n = 0 THEN crc ELSE XmodemStep(XmodemShift(crc, n - 1))

\* The values the register takes: the initial one, then one per byte.
RECURSIVE XmodemTrace(_, _)
XmodemTrace(bytes, n) ==
    IF n = 0 THEN <<0>>
    ELSE LET trace == XmodemTrace(bytes, n - 1)
         IN  Append(trace, XmodemShift(Xor(trace[n], 256 * bytes[n]), 8))

crc16_xmodem(bytes) == XmodemTrace(bytes, Len(bytes))[Len(bytes) + 1]

\* CRC-16/MODBUS: polynomial 0xA001 (reflected), initial value 0xFFFF, least
\* significant bit first.
ModbusStep(crc) == IF crc % 2 = 1 THEN Xor(crc \div 2, 40961) ELSE crc \div 2

RECURSIVE ModbusShift(_, _)
ModbusShift(crc, n) == IF n = 0 THEN crc ELSE ModbusStep(ModbusShift(crc, n - 1))

RECURSIVE ModbusTrace(_, _)
ModbusTrace(bytes, n) ==
    IF n = 0 THEN <<65535>>
    ELSE LET trace == ModbusTrace(bytes, n - 1)
         IN  Append(trace, ModbusShift(Xor(trace[n], bytes[n]), 8))

crc16_modbus(bytes) == ModbusTrace(bytes, Len(bytes))[Len(bytes) + 1]

\* An escaping that knows '(' alone.
AdjustParenOnly(b) == IF b = 40 THEN b + 1 ELSE b

\* A checksum byte equal to '(' (0x28), CR (0x0D) or LF (0x0A) is sent as b + 1.
adjust_crc_byte(b) == IF b \in {40, 13, 10} THEN b + 1 ELSE b

\* ---- create_request ----

\* ascii_command=None: the request is a register read.
NoCommand == <<"None">>

\* (x >> 8) & 0xFF, x & 0xFF
HighByte(x) == (x \div 256) % 256
LowByte(x) == x % 256

RtuPacket_CrcSwapped(req) ==
    IF req.ascii_command # NoCommand THEN
        LET text == EncodeAscii(req.ascii_command)
            crc == crc16_xmodem(text)
        IN  text \o <<adjust_crc_byte(LowByte(crc)), adjust_crc_byte(HighByte(crc)), 13>>
    ELSE
        LET body == <<req.unit_id, req.function_code,
                      HighByte(req.register_address), LowByte(req.register_address),
                      HighByte(req.register_count), LowByte(req.register_count)>>
            crc == crc16_modbus(body)
        IN  body \o <<HighByte(crc), LowByte(crc)>>

\* The inner packet: the command text with its checksum and CR, or the six
\* bytes of the register read with their checksum, low byte first.
RtuPacket(req) ==
    IF req.ascii_command # NoCommand THEN
        LET text == EncodeAscii(req.ascii_command)
            crc == crc16_xmodem(text)
        IN  text \o <<adjust_crc_byte(HighByte(crc)), adjust_crc_byte(LowByte(crc)), 13>>
    ELSE
        LET body == <<req.unit_id, req.function_code,
                      HighByte(req.register_address), LowByte(req.register_address),
                      HighByte(req.register_count), LowByte(req.register_count)>>
            crc == crc16_modbus(body)
        IN  body \o <<LowByte(crc), HighByte(crc)>>

\* The envelope: transaction id, protocol id, length of what follows; then
\* FF 04 and the inner packet. The result is the hex string of the bytes.
create_request(req) ==
    LET rtu_packet == <<255, 4>> \o RtuPacket(req)
        length == Len(rtu_packet)
    IN  ToHex(<<HighByte(req.transaction_id), LowByte(req.transaction_id),
                HighByte(req.protocol_id), LowByte(req.protocol_id),
                HighByte(length), LowByte(length)>> \o rtu_packet)

\* ---- the calls made on the codec ----

Pending == [kind |-> "pending", values |-> <<>>]

NoRequest ==
    [transaction_id |-> 0, protocol_id |-> 0, ascii_command |-> NoCommand,
     unit_id |-> 0, function_code |-> 0, register_address |-> 0, register_count |-> 0]

InitCodec ==
    /\ request = NoRequest
    /\ response = <<>>
    /\ decode_args = [register_count |-> 1, data_format |-> "Int", is_ascii |-> FALSE]
    /\ decoded = Pending
    /\ codec_pc = "off"

\* Requests as AsyncISolar builds them (lines 46 and 79 of async_isolar.py):
\* PI-17 commands, and register reads with function code 3.
TransactionIds == {0, 255, 256, InitialTransactionId, IdMask}

AsciiCommands ==
    {<<"Q", "P", "I", "G", "S">>, <<"Q", "M", "O", "D">>, <<"Q", "P", "I", "G", "S", "2">>}

AsciiRequests ==
    {[transaction_id |-> t, protocol_id |-> 1, ascii_command |-> c,
      unit_id |-> 1, function_code |-> 3, register_address |-> 0, register_count |-> 1] :
        t \in TransactionIds, c \in AsciiCommands}

RegisterRequests ==
    {[transaction_id |-> t, protocol_id |-> 1, ascii_command |-> NoCommand,
      unit_id |-> u, function_code |-> 3, register_address |-> a, register_count |-> n] :
        t \in TransactionIds, u \in {0, 1}, a \in {0, 201, 277, 65535}, n \in {0, 1, 5, 256, 65535}}

Requests == AsciiRequests \cup RegisterRequests

\* Responses as they come off the wire. The words of a binary response are the
\* corner cases of a 16-bit register.
Words == {0, 1, 32767, 32768, 65535}

WordLists == UNION {[1..k -> Words] : k \in 0..MaxWords}

\* FF 04, the byte count, then the words high byte first.
BinaryBody(ws) ==
    <<255, 4, 2 * Len(ws)>>
    \o [i \in 1..(2 * Len(ws)) |->
            IF i % 2 = 1 THEN HighByte(ws[(i + 1) \div 2]) ELSE LowByte(ws[i \div 2])]

\* FF 04, the reply text, two checksum bytes and CR; the last body carries a
\* byte that is not ASCII.
AsciiBodies ==
    {<<255, 4>> \o EncodeAscii(<<"(", "B">>) \o <<231, 201, 13>>,
     <<255, 4>> \o EncodeAscii(<<"(", "2", "0", " ", "0">>) \o <<18, 52, 13>>,
     <<255, 4, 40, 200, 18, 52, 13>>}

BinaryBodies == {BinaryBody(ws) : ws \in WordLists}

\* The six header bytes with `declared` in the length field.
Header(declared) == <<7, 114, 0, 1, HighByte(declared), LowByte(declared)>>

\* Whole frames, frames cut short, frames whose length field says less or more
\* than what follows, and frames that end inside the header.
Frames(bodies) ==
    UNION {{Header(declared) \o SubSeq(body, 1, actual) :
                declared \in 0..(Len(body) + 1), actual \in 0..Len(body)} :
            body \in bodies}
    \cup {SubSeq(Header(3), 1, k) : k \in 0..5}

\* The other arguments of the decoder: a binary decode with its register count
\* and format, or an ASCII decode.
BinaryDecodeArgs ==
    {[register_count |-> n, data_format |-> f, is_ascii |-> FALSE] :
        n \in 0..MaxRegisterCount, f \in {"Int", "UnsignedInt"}}

AsciiDecodeArgs == {[register_count |-> 1, data_format |-> "Int", is_ascii |-> TRUE]}

CreateRequest ==
    /\ codec_pc = "encode"
    /\ response' = create_request(request)
    /\ codec_pc' = "decode"
    /\ UNCHANGED <<notCodec, request, decode_args, decoded>>

Decode ==
    /\ codec_pc = "decode"
    /\ decoded' = DecodeModbusResponse(response, decode_args.register_count,
                                       decode_args.data_format, decode_args.is_ascii)
    /\ codec_pc' = "done"
    /\ UNCHANGED <<notCodec, request, response, decode_args>>

NextCodec == CreateRequest \/ Decode
\* ========================================================================
\*  AsyncISolar.get_all_data: register groups
\* ========================================================================

\* client.send_bulk returned a list of hex responses, or raised.
BulkReturned(hex_responses) == [outcome |-> "returned", responses |-> hex_responses]
BulkRaised == [outcome |-> "raised", responses |-> <<>>]

\* The empty dict.
EmptyDict == [key \in {} |-> 0]

\* A number is kept as a fraction num/den; None has den = 0.
Number(num, den) == [num |-> num, den |-> den]
NoneValue == [num |-> 0, den |-> 0]

\* A sub-record that is None, and one built with the given fields.
Absent == [present |-> FALSE, fields |-> EmptyDict]
Present(fields) == [present |-> TRUE, fields |-> fields]

\* get_all_data has not returned yet.
NoSnapshot ==
    [outcome |-> "pending", battery |-> Absent, pv |-> Absent, grid |-> Absent,
     output |-> Absent, system |-> Absent, inverter_time |-> <<>>]

InitSnap ==
    /\ protocol = "numerical"
    /\ command_responses = EmptyDict
    /\ register_map = <<>>
    /\ register_groups = <<>>
    /\ bulk = BulkReturned(<<>>)
    /\ results = <<>>
    /\ values = EmptyDict
    /\ decoded_keys = {}
    /\ all_data = NoSnapshot
    /\ snap_pc = "off"

\* The names of the registers, in the order of the register maps of models.py.
RegisterNames ==
    <<"operation_mode", "battery_voltage", "battery_current", "battery_power",
      "battery_soc", "battery_temperature", "pv_total_power", "pv_charging_power",
      "pv_charging_current", "pv_temperature", "pv1_voltage", "pv1_current",
      "pv1_power", "pv2_voltage", "pv2_current", "pv2_power", "grid_voltage",
      "grid_current", "grid_power", "grid_frequency", "output_voltage",
      "output_current", "output_power", "output_apparent_power",
      "output_load_percentage", "output_frequency", "time_register_0",
      "time_register_1", "time_register_2", "time_register_3", "time_register_4",
      "time_register_5", "pv_energy_today", "pv_energy_total">>

\* The registers declared with processor=int: the six time registers.
ProcessorOf(name) ==
    IF name \in {"time_register_0", "time_register_1", "time_register_2",
                 "time_register_3", "time_register_4", "time_register_5"}
    THEN "int" ELSE "None"

\* A register map with the given addresses and scale factors, in order. A
\* scale factor is kept as its denominator: 1 for 1.0, 10 for 0.1, 100 for 0.01.
RegisterMap(addresses, scales) ==
    [i \in 1..Len(addresses) |->
        [name |-> RegisterNames[i], address |-> addresses[i], scale |-> scales[i],
         processor |-> ProcessorOf(RegisterNames[i])]]

Scales_11K ==
    <<1, 10, 10, 1, 1, 1, 1, 1, 10, 1, 10, 10, 1, 10, 10, 1, 10, 10, 1, 1,
      10, 10, 1, 1, 1, 1, 1, 1, 1, 1, 1, 1, 100, 100>>

Scales_6K ==
    <<1, 10, 10, 1, 1, 1, 1, 1, 10, 1, 10, 10, 1, 1, 1, 1, 10, 1, 1, 1,
      10, 10, 1, 1, 100, 1, 1, 1, 1, 1, 1, 1, 1, 1>>

\* The addresses of ISOLAR_SMG_II_11K and ISOLAR_SMG_II_6K (0: not supported).
ISOLAR_SMG_II_11K ==
    RegisterMap(<<201, 277, 278, 279, 280, 281, 302, 303, 304, 305, 351, 352, 353,
                  389, 390, 391, 338, 339, 340, 607, 346, 347, 348, 349, 350, 607,
                  696, 697, 698, 699, 700, 701, 702, 703>>, Scales_11K)

ISOLAR_SMG_II_6K ==
    RegisterMap(<<201, 215, 216, 217, 229, 226, 223, 224, 234, 227, 219, 220, 223,
                  0, 0, 0, 202, 0, 204, 203, 210, 211, 213, 214, 225, 212,
                  696, 697, 698, 699, 700, 701, 0, 0>>, Scales_6K)

\* `addr <= current_end + 10`: the address extends the current group.
GapTolerance == 10

Extends_Strict(addr, current_end) == addr < current_end + GapTolerance

Extends(addr, current_end) == addr <= current_end + GapTolerance

ValidAddresses_WithZero(map) == [i \in 1..Len(map) |-> map[i].address]

\* [config.address for config in register_map.values() if config.address > 0]
ValidAddresses(map) ==
    LET valid == SelectSeq(map, LAMBDA config : config.address > 0)
    IN  [i \in 1..Len(valid) |-> valid[i].address]

\* addresses.sort(): ascending, equal addresses kept.
RECURSIVE Insert(_, _)
Insert(sorted, a) ==
    IF sorted = <<>> THEN <<a>>
    ELSE IF a < Head(sorted) THEN <<a>> \o sorted
    ELSE <<Head(sorted)>> \o Insert(Tail(sorted), a)

RECURSIVE Sort(_)
Sort(addresses) ==
    IF addresses = <<>> THEN <<>>
    ELSE Insert(Sort(SubSeq(addresses, 1, Len(addresses) - 1)), addresses[Len(addresses)])

\* The loop `for addr in addresses[1:]` from index i on, with the group being
\* built, and the append of the last group after it.
RECURSIVE GroupsFrom(_, _, _, _)
GroupsFrom(addresses, i, current_start, current_end) ==
    IF i > Len(addresses) THEN <<(<<current_start, current_end - current_start + 1>>)>>
    ELSE IF Extends(addresses[i], current_end)
         THEN GroupsFrom(addresses, i + 1, current_start, addresses[i])
         ELSE <<(<<current_start, current_end - current_start + 1>>)>>
              \o GroupsFrom(addresses, i + 1, addresses[i], addresses[i])

create_register_groups_Unsorted(map) ==
    LET addresses == ValidAddresses(map)
    IN  IF addresses = <<>> THEN <<>>
        ELSE GroupsFrom(addresses, 2, addresses[1], addresses[1])

create_register_groups(map) ==
    LET addresses == Sort(ValidAddresses(map))
    IN  IF addresses = <<>> THEN <<>>
        ELSE GroupsFrom(addresses, 2, addresses[1], addresses[1])

\* The addresses of the coalescing example, as a register map.
ExampleMap == RegisterMap(<<201, 277, 278, 279, 280, 281, 302, 215>>, Scales_11K)

\* Register maps to group: every short map over addresses that sit at and
\* around the tolerance (0 is skipped; 1 and 11 are 10 apart, 12 and 23 are
\* 11 apart), the example, and the maps of two models.
SmallAddresses == {0, 1, 11, 12, 23}

RegisterMaps ==
    {RegisterMap(addresses, Scales_11K) :
        addresses \in UNION {[1..n -> SmallAddresses] : n \in 0..MaxRegisters}}
    \cup {ExampleMap, ISOLAR_SMG_II_11K, ISOLAR_SMG_II_6K}

\* register_groups = self._create_register_groups()
CreateRegisterGroups ==
    /\ snap_pc = "groups"
    /\ protocol = "numerical"
    /\ register_groups' = create_register_groups(register_map)
    /\ snap_pc' = "read"
    /\ UNCHANGED <<notSnap, protocol, command_responses, register_map, bulk, results,
                   values, decoded_keys, all_data>>

NextGroups == CreateRegisterGroups

\* ---- the register path of get_all_data ----

InitClient == client_connected = FALSE

\* send_bulk connects before it sends; it leaves the connection established
\* when it returns the responses, and marked as lost when it raises or
\* returns [].
ConnectedAfter(sent) == sent.outcome = "returned" /\ sent.responses # <<>>

\* _read_registers_bulk: decoded_groups, one entry per group. An entry stays
\* None when send_bulk raised, returned fewer responses or an empty response.
DecodedGroups(groups, sent) ==
    [i \in 1..Len(groups) |->
        IF sent.outcome = "returned" /\ i <= Len(sent.responses) /\ sent.responses[i] # <<>>
        THEN DecodeModbusResponse(sent.responses[i], groups[i][2], "Int", FALSE)
        ELSE ResultNone]

\* results = await self._read_registers_bulk(register_groups): one
\* transaction id per request, then the responses decoded by position.
ReadGroups ==
    /\ snap_pc = "read"
    /\ LET a == AllocateIds(transaction_id, Len(register_groups))
       IN  /\ requests' = a[1]
           /\ transaction_id' = a[2]
    /\ allocated' = allocated + Len(register_groups)
    /\ client_connected' = ConnectedAfter(bulk)
    /\ results' = DecodedGroups(register_groups, bulk)
    /\ snap_pc' = "merge"
    /\ UNCHANGED <<notSnapIds, protocol, command_responses, register_map, register_groups,
                   bulk, values, decoded_keys, all_data>>

\* What get_all_data returns: the five sub-records.
Returned(battery, pv, grid, output, system, time) ==
    [outcome |-> "returned", battery |-> battery, pv |-> pv, grid |-> grid,
     output |-> output, system |-> system, inverter_time |-> time]

\* if not results: return None, None, None, None, None
NoResults ==
    /\ snap_pc = "merge"
    /\ results = <<>>
    /\ all_data' = Returned(Absent, Absent, Absent, Absent, Absent, <<>>)
    /\ snap_pc' = "done"
    /\ UNCHANGED <<notSnap, protocol, command_responses, register_map, register_groups,
                   bulk, results, values, decoded_keys>>

\* A process_value that leaves the scale factor out.
ProcessUnscaled(config, value) == Number(value, 1)

\* ModelConfig.process_value: the processor (int leaves a word as it is) or
\* value * scale_factor.
process_value(config, value) ==
    IF config.processor # "None" THEN Number(value, 1)
    ELSE Number(value, config.scale)

\* The group i whose span holds the address, and the place of the address in it.
InGroup(address, groups, i) ==
    address >= groups[i][1] /\ address < groups[i][1] + groups[i][2]

\* The entries of the map that get a value: those in the span of a group that
\* was decoded, at an index the decoded list has.
Assigned(map, groups, decoded_groups) ==
    {k \in 1..Len(map) :
        \E i \in 1..Len(groups) :
            /\ decoded_groups[i].kind # "None"
            /\ InGroup(map[k].address, groups, i)
            /\ map[k].address - groups[i][1] < Len(decoded_groups[i].values)}

MergedValues_ZeroFilled(map, groups, decoded_groups) ==
    LET InSpan(k) == {i \in 1..Len(groups) :
                        decoded_groups[i].kind # "None" /\ InGroup(map[k].address, groups, i)}
        assigned == {k \in 1..Len(map) : InSpan(k) # {}}
        EntryOf(name) == CHOOSE k \in assigned : map[k].name = name
    IN  [name \in {map[k].name : k \in assigned} |->
            LET k == EntryOf(name)
                i == CHOOSE g \in InSpan(k) : TRUE
                offset == map[k].address - groups[i][1]
            IN  process_value(map[k], IF offset < Len(decoded_groups[i].values)
                                      THEN decoded_groups[i].values[offset + 1] ELSE 0)]

\* The loops over the groups and the register map that fill `values`.
MergedValues(map, groups, decoded_groups) ==
    LET assigned == Assigned(map, groups, decoded_groups)
        EntryOf(name) == CHOOSE k \in assigned : map[k].name = name
        GroupOf(k) == CHOOSE i \in 1..Len(groups) : InGroup(map[k].address, groups, i)
    IN  [name \in {map[k].name : k \in assigned} |->
            LET k == EntryOf(name)
                i == GroupOf(k)
            IN  process_value(map[k], decoded_groups[i].values[map[k].address - groups[i][1] + 1])]

MergeValues ==
    /\ snap_pc = "merge"
    /\ results # <<>>
    /\ values' = MergedValues(register_map, register_groups, results)
    /\ decoded_keys' = DOMAIN values'
    /\ snap_pc' = "build"
    /\ UNCHANGED <<notSnap, protocol, command_responses, register_map, register_groups,
                   bulk, results, all_data>>

\* ---- the sub-records ----

\* values.get(key)
Get(dict, key) == IF key \in DOMAIN dict THEN dict[key] ELSE NoneValue

\* A record whose fields are read with values.get.
Fields(dict, keys_of_fields) ==
    [field \in DOMAIN keys_of_fields |-> Get(dict, keys_of_fields[field])]

\* The key each field of a sub-record is read from.
BatteryKeys ==
    [voltage |-> "battery_voltage", current |-> "battery_current",
     power |-> "battery_power", soc |-> "battery_soc",
     temperature |-> "battery_temperature"]

PVKeys ==
    [total_power |-> "pv_total_power", charging_power |-> "pv_charging_power",
     charging_current |-> "pv_charging_current", temperature |-> "pv_temperature",
     pv1_voltage |-> "pv1_voltage", pv1_current |-> "pv1_current",
     pv1_power |-> "pv1_power", pv2_voltage |-> "pv2_voltage",
     pv2_current |-> "pv2_current", pv2_power |-> "pv2_power",
     pv_generated_today |-> "pv_generated_today",
     pv_generated_total |-> "pv_generated_total"]

GridKeys ==
    [voltage |-> "grid_voltage", power |-> "grid_power", frequency |-> "grid_frequency"]

OutputKeys ==
    [voltage |-> "output_voltage", current |-> "output_current",
     power |-> "output_power", apparent_power |-> "output_apparent_power",
     load_percentage |-> "output_load_percentage", frequency |-> "output_frequency"]

\* The keys a sub-record is built on: all of them for the battery, any of
\* them for the others.
BatteryMandatory ==
    {"battery_voltage", "battery_current", "battery_power", "battery_soc",
     "battery_temperature"}
PVMandatory == {"pv_total_power", "pv1_voltage", "pv2_voltage"}
GridMandatory == {"grid_voltage", "grid_power"}
OutputMandatory == {"output_voltage", "output_power"}

create_battery_data(dict) ==
    IF BatteryMandatory \subseteq DOMAIN dict THEN Present(Fields(dict, BatteryKeys))
    ELSE Absent

create_pv_data(dict) ==
    IF PVMandatory \cap DOMAIN dict # {} THEN Present(Fields(dict, PVKeys)) ELSE Absent

create_grid_data(dict) ==
    IF GridMandatory \cap DOMAIN dict # {} THEN Present(Fields(dict, GridKeys)) ELSE Absent

create_output_data(dict) ==
    IF OutputMandatory \cap DOMAIN dict # {} THEN Present(Fields(dict, OutputKeys))
    ELSE Absent

\* datetime.datetime(year, month, day, hour, minute, second) raises ValueError
\* outside the calendar.
DaysIn(year, month) ==
    IF month = 2
    THEN (IF year % 4 = 0 /\ (year % 100 # 0 \/ year % 400 = 0) THEN 29 ELSE 28)
    ELSE IF month \in {4, 6, 9, 11} THEN 30 ELSE 31

ValidDateTime(t) ==
    /\ t[1] \in 1..9999
    /\ t[2] \in 1..12
    /\ t[3] >= 1 /\ t[3] <= DaysIn(t[1], t[2])
    /\ t[4] \in 0..23
    /\ t[5] \in 0..59
    /\ t[6] \in 0..59

TimeKeys ==
    <<"time_register_0", "time_register_1", "time_register_2", "time_register_3",
      "time_register_4", "time_register_5">>

\* The timestamp of _create_system_status: None unless all six time registers
\* are there and make a date.
InverterTimestamp(dict) ==
    IF \A i \in 1..6 : TimeKeys[i] \in DOMAIN dict
    THEN LET t == [i \in 1..6 |-> dict[TimeKeys[i]].num]
         IN  IF ValidDateTime(t) THEN t ELSE <<>>
    ELSE <<>>

\* OperatingMode(mode_value): SUB = 2, SBU = 3.
IsOperatingMode(v) == v.den # 0 /\ (v.num = 2 * v.den \/ v.num = 3 * v.den)

\* _create_system_status: a status when operation_mode is a member of
\* OperatingMode. For any other value the ValueError handler evaluates
\* OperatingMode.FAULT, which the enum does not have; the AttributeError is
\* caught by the outer handler and the status is None.
create_system_status(dict) ==
    IF "operation_mode" \in DOMAIN dict /\ IsOperatingMode(dict["operation_mode"])
    THEN Present([operating_mode |-> dict["operation_mode"]])
    ELSE Absent

SystemTime(dict) ==
    IF create_system_status(dict).present THEN InverterTimestamp(dict) ELSE <<>>

\* The five _create_* calls and the return.
CreateDataObjects ==
    /\ snap_pc = "build"
    /\ all_data' = Returned(create_battery_data(values), create_pv_data(values),
                            create_grid_data(values), create_output_data(values),
                            create_system_status(values), SystemTime(values))
    /\ snap_pc' = "done"
    /\ UNCHANGED <<notSnap, protocol, command_responses, register_map, register_groups,
                   bulk, results, values, decoded_keys>>

\* ---- the ASCII path of get_all_data ----

\* model_config.command_map: the commands that are asked, in this order.
CommandMap == <<"QPIGS", "QMOD", "QPIGS2">>

\* get_all_data ended with an exception.
Raised(error) ==
    [outcome |-> error, battery |-> Absent, pv |-> Absent, grid |-> Absent,
     output |-> Absent, system |-> Absent, inverter_time |-> <<>>]

\* _query_ascii_commands: the commands that got a non-empty response, and
\* what the k-th response decodes to.
Answered(cmds, sent) ==
    {k \in 1..Len(cmds) : k <= Len(sent.responses) /\ sent.responses[k] # <<>>}

AsciiDecoded(sent, k) == DecodeModbusResponse(sent.responses[k], 1, "Int", TRUE)

\* isinstance(parsed, str) and parsed.startswith('(')
StartsWithParen(result) ==
    result.kind = "str" /\ Len(result.values) >= 1 /\ result.values[1] = "("

\* responses_dict: the texts that begin with '(' under their command.
QueriedResponses(cmds, sent) ==
    LET kept == {k \in Answered(cmds, sent) : StartsWithParen(AsciiDecoded(sent, k))}
    IN  [cmd \in {cmds[k] : k \in kept} |->
            AsciiDecoded(sent, CHOOSE k \in kept : cmds[k] = cmd).values]

\* The exception _query_ascii_commands ends with, "" when it returns: the one
\* of send_bulk, or that of a decode.
QueryError(cmds, sent) ==
    IF sent.outcome = "raised" THEN "Exception"
    ELSE IF \E k \in Answered(cmds, sent) :
                AsciiDecoded(sent, k).kind = "UnicodeDecodeError"
         THEN "UnicodeDecodeError"
         ELSE ""

\* command_responses = await self._query_ascii_commands(command_map): one
\* transaction id per command, then the responses decoded by position.
QueryAsciiCommands ==
    /\ snap_pc = "groups"
    /\ protocol = "ascii"
    /\ LET a == AllocateIds(transaction_id, Len(CommandMap))
       IN  /\ requests' = a[1]
           /\ transaction_id' = a[2]
    /\ allocated' = allocated + Len(CommandMap)
    /\ client_connected' = ConnectedAfter(bulk)
    /\ IF QueryError(CommandMap, bulk) # ""
       THEN /\ all_data' = Raised(QueryError(CommandMap, bulk))
            /\ snap_pc' = "done"
            /\ UNCHANGED command_responses
       ELSE /\ command_responses' = QueriedResponses(CommandMap, bulk)
            /\ snap_pc' = "parse"
            /\ UNCHANGED all_data
    /\ UNCHANGED <<notSnapIds, protocol, register_map, register_groups, bulk, results,
                   values, decoded_keys>>

\* str.split(): the maximal runs of characters other than the blank.
FieldStarts(text) ==
    {i \in 1..Len(text) : text[i] # " " /\ (i = 1 \/ text[i - 1] = " ")}

FieldEnd(text, i) ==
    CHOOSE j \in i..Len(text) :
        /\ \A k \in i..j : text[k] # " "
        /\ (j = Len(text) \/ text[j + 1] = " ")

Split(text) ==
    LET starts == FieldStarts(text)
        StartOf(k) == CHOOSE i \in starts : Cardinality({j \in starts : j < i}) = k - 1
    IN  [k \in 1..Cardinality(starts) |-> SubSeq(text, StartOf(k), FieldEnd(text, StartOf(k)))]

\* int(field) and float(field) on fields written with digits, '.', '-' and
\* letters: a ValueError unless the field is a decimal number (with no '.'
\* for int). The value keeps the field's decimal places.
IsDigit(c) == c \in {"0", "1", "2", "3", "4", "5", "6", "7", "8", "9"}

RECURSIVE DigitsValue(_)
DigitsValue(digits) ==
    IF digits = <<>> THEN 0
    ELSE 10 * DigitsValue(SubSeq(digits, 1, Len(digits) - 1))
         + HexValue(digits[Len(digits)])

Unsigned(field) == IF field # <<>> /\ field[1] = "-" THEN Tail(field) ELSE field

Sign(field) == IF field # <<>> /\ field[1] = "-" THEN -1 ELSE 1

Points(body) == {i \in 1..Len(body) : body[i] = "."}

IsInt(field) ==
    LET body == Unsigned(field)
    IN  body # <<>> /\ \A i \in 1..Len(body) : IsDigit(body[i])

IsFloat(field) ==
    LET body == Unsigned(field)
    IN  /\ Cardinality(Points(body)) <= 1
        /\ Len(body) > Cardinality(Points(body))
        /\ \A i \in (1..Len(body)) \ Points(body) : IsDigit(body[i])

RECURSIVE Pow10(_)
Pow10(n) == IF n = 0 THEN 1 ELSE 10 * Pow10(n - 1)

IntOf(field) == Number(Sign(field) * DigitsValue(Unsigned(field)), 1)

NotPoint(c) == c # "."

FloatOf(field) ==
    LET body == Unsigned(field)
        places == IF Points(body) = {} THEN 0
                  ELSE Len(body) - (CHOOSE i \in Points(body) : TRUE)
    IN  Number(Sign(field) * DigitsValue(SelectSeq(body, NotPoint)), Pow10(places))

CanConvert(field, type) == IF type = "float" THEN IsFloat(field) ELSE IsInt(field)

Convert(field, type) == IF type = "float" THEN FloatOf(field) ELSE IntOf(field)

\* The index table of the QPIGS block, and that of QPIGS2.
QpigsTable ==
    [grid_voltage |-> [index |-> 0, type |-> "float"],
     grid_frequency |-> [index |-> 1, type |-> "float"],
     output_voltage |-> [index |-> 2, type |-> "float"],
     output_frequency |-> [index |-> 3, type |-> "float"],
     output_apparent_power |-> [index |-> 4, type |-> "int"],
     output_power |-> [index |-> 5, type |-> "int"],
     output_load_percentage |-> [index |-> 6, type |-> "int"],
     battery_voltage |-> [index |-> 8, type |-> "float"],
     battery_charging_current |-> [index |-> 9, type |-> "int"],
     battery_soc |-> [index |-> 10, type |-> "int"],
     pv1_current |-> [index |-> 12, type |-> "float"],
     pv1_voltage |-> [index |-> 13, type |-> "float"],
     battery_discharge_current |-> [index |-> 15, type |-> "int"],
     pv1_power |-> [index |-> 19, type |-> "int"]]

Qpigs2Table ==
    [pv2_current |-> [index |-> 0, type |-> "float"],
     pv2_voltage |-> [index |-> 1, type |-> "float"],
     pv2_power |-> [index |-> 2, type |-> "int"]]

QpigsMinFields == 21
Qpigs2MinFields == 3

\* fields = text[1:].split() of the response to a command, [] without one.
FieldsOf(responses_dict, cmd) ==
    IF cmd \in DOMAIN responses_dict THEN Split(Tail(responses_dict[cmd])) ELSE <<>>

\* A block is parsed when it has enough fields; it raises ValueError when one
\* of its conversions does.
BlockRaises(fields, table, min_fields) ==
    /\ Len(fields) >= min_fields
    /\ \E key \in DOMAIN table : ~CanConvert(fields[table[key].index + 1], table[key].type)

BlockValues(fields, table) ==
    [key \in DOMAIN table |-> Convert(fields[table[key].index + 1], table[key].type)]

\* values[key] = v, and values.setdefault(key, v)
Put(dict, key, v) ==
    [k \in DOMAIN dict \cup {key} |-> IF k = key THEN v ELSE dict[k]]

SetDefault(dict, key, v) == IF key \in DOMAIN dict THEN dict ELSE Put(dict, key, v)

\* values.get(key, 0)
GetOrZero(dict, key) == IF key \in DOMAIN dict THEN dict[key] ELSE Number(0, 1)

Positive(v) == v.num > 0

Divide(a, b) == Number(a.num * b.den, a.den * b.num)

Add(a, b) == Number(a.num * b.den + b.num * a.den, a.den * b.den)

\* int(value * 100)
Times100(v) ==
    IF v.num >= 0 THEN Number((v.num * 100) \div v.den, 1)
    ELSE Number(-((-v.num * 100) \div v.den), 1)

\* The QPIGS block: the table, the output current and the grid power.
AfterQpigs(fields) ==
    IF Len(fields) < QpigsMinFields THEN EmptyDict
    ELSE LET base == BlockValues(fields, QpigsTable)
             with_current ==
                Put(base, "output_current",
                    IF Positive(base["output_voltage"])
                    THEN Divide(base["output_apparent_power"], base["output_voltage"])
                    ELSE Number(0, 1))
         IN  IF Positive(base["grid_voltage"])
             THEN Put(with_current, "grid_power", Number(0, 1))
             ELSE with_current

\* The QPIGS2 block: the table and the total PV power.
AfterQpigs2(dict, fields) ==
    IF Len(fields) < Qpigs2MinFields THEN dict
    ELSE LET block == BlockValues(fields, Qpigs2Table)
             with_block == [k \in DOMAIN dict \cup DOMAIN block |->
                                IF k \in DOMAIN block THEN block[k] ELSE dict[k]]
         IN  Put(with_block, "pv_total_power",
                 Add(GetOrZero(with_block, "pv1_power"), block["pv2_power"]))

\* The QMOD block: qmod[1] is 'L', 'B', 'F' or something else.
ModeOf(mode_char) ==
    CASE mode_char = "L" -> 2
      [] mode_char = "B" -> 3
      [] mode_char = "F" -> 1
      [] OTHER -> 0

AfterQmod(dict, responses_dict) ==
    IF "QMOD" \in DOMAIN responses_dict
    THEN Put(dict, "operation_mode", Number(ModeOf(responses_dict["QMOD"][2]), 1))
    ELSE dict

\* Frequencies *100 for internal format
Frequencies(dict) ==
    [k \in DOMAIN dict |->
        IF k \in {"grid_frequency", "output_frequency"} THEN Times100(dict[k]) ELSE dict[k]]

\* The setdefault lines.
Defaults(dict) ==
    LET d1 == SetDefault(dict, "battery_temperature", Number(0, 1))
        d2 == SetDefault(d1, "pv_temperature", Number(0, 1))
        d3 == SetDefault(d2, "grid_current", Number(0, 1))
        d4 == SetDefault(d3, "pv_charging_power", GetOrZero(d3, "pv1_power"))
        d5 == SetDefault(d4, "pv_charging_current", GetOrZero(d4, "pv1_current"))
        d6 == SetDefault(d5, "pv_generated_today", NoneValue)
    IN  SetDefault(d6, "pv_generated_total", NoneValue)

\* _parse_ascii_responses: what it returns, and the exception it ends with
\* ("" when it returns).
parse_ascii_responses(responses_dict) ==
    Defaults(Frequencies(AfterQmod(
        AfterQpigs2(AfterQpigs(FieldsOf(responses_dict, "QPIGS")),
                    FieldsOf(responses_dict, "QPIGS2")),
        responses_dict)))

ParseError(responses_dict) ==
    IF \/ BlockRaises(FieldsOf(responses_dict, "QPIGS"), QpigsTable, QpigsMinFields)
       \/ BlockRaises(FieldsOf(responses_dict, "QPIGS2"), Qpigs2Table, Qpigs2MinFields)
    THEN "ValueError"
    ELSE IF "QMOD" \in DOMAIN responses_dict /\ Len(responses_dict["QMOD"]) < 2
         THEN "IndexError"
         ELSE ""

\* The keys whose value was read from a field of a response, or computed
\* from fields that were: not the constants 0 and 0.0 and the defaults.
DecodedFromFields(responses_dict) ==
    LET qpigs == FieldsOf(responses_dict, "QPIGS")
        qpigs2 == FieldsOf(responses_dict, "QPIGS2")
        from_qpigs ==
            IF Len(qpigs) < QpigsMinFields THEN {}
            ELSE DOMAIN QpigsTable
                 \cup {"pv_charging_power", "pv_charging_current"}
                 \cup (IF Positive(AfterQpigs(qpigs)["output_voltage"])
                       THEN {"output_current"} ELSE {})
        from_qpigs2 ==
            IF Len(qpigs2) < Qpigs2MinFields THEN {}
            ELSE DOMAIN Qpigs2Table \cup {"pv_total_power"}
        from_qmod == IF "QMOD" \in DOMAIN responses_dict THEN {"operation_mode"} ELSE {}
    IN  from_qpigs \cup from_qpigs2 \cup from_qmod

\* values = self._parse_ascii_responses(command_responses)
ParseAsciiResponses ==
    /\ snap_pc = "parse"
    /\ IF ParseError(command_responses) # ""
       THEN /\ all_data' = Raised(ParseError(command_responses))
            /\ snap_pc' = "done"
            /\ UNCHANGED <<values, decoded_keys>>
       ELSE /\ values' = parse_ascii_responses(command_responses)
            /\ decoded_keys' = DecodedFromFields(command_responses)
            /\ snap_pc' = "build"
            /\ UNCHANGED all_data
    /\ UNCHANGED <<notSnap, protocol, command_responses, register_map, register_groups,
                   bulk, results>>

\* ---- what an ASCII inverter sends back ----

\* The fields of a QPIGS reply of a running inverter.
ReferenceQpigs ==
    <<<<"2", "3", "0", ".", "0">>,
      <<"5", "0", ".", "0">>,
      <<"2", "3", "0", ".", "0">>,
      <<"5", "0", ".", "0">>,
      <<"0", "4", "6", "0">>,
      <<"0", "4", "0", "0">>,
      <<"0", "1", "0">>,
      <<"4", "0", "0">>,
      <<"5", "2", ".", "5">>,
      <<"0", "1", "0">>,
      <<"0", "9", "5">>,
      <<"0", "0", "3", "5">>,
      <<"0", "2", ".", "0">>,
      <<"1", "2", "0", ".", "0">>,
      <<"0", "0", ".", "0", "0">>,
      <<"0", "0", "0", "0", "0">>,
      <<"0", "0", "0", "1", "0", "1", "1", "0">>,
      <<"0", "0">>,
      <<"0", "0">>,
      <<"0", "0", "2", "4", "0">>,
      <<"0", "1", "0">>>>

RECURSIVE Join(_)
Join(fields) ==
    IF fields = <<>> THEN <<>>
    ELSE IF Len(fields) = 1 THEN fields[1]
    ELSE fields[1] \o <<" ">> \o Join(Tail(fields))

Line(fields) == <<"(">> \o Join(fields)

WithField(fields, index, field) == [fields EXCEPT ![index + 1] = field]

\* The reply; one field short; grid and output voltage 0; "NA" for the
\* battery voltage; a decimal where int() is applied; no opening parenthesis.
QpigsTexts ==
    {Line(ReferenceQpigs),
     Line(SubSeq(ReferenceQpigs, 1, QpigsMinFields - 1)),
     Line(WithField(WithField(ReferenceQpigs, 0, <<"0", ".", "0">>), 2, <<"0", ".", "0">>)),
     Line(WithField(ReferenceQpigs, 8, <<"N", "A">>)),
     Line(WithField(ReferenceQpigs, 5, <<"4", "0", "0", ".", "5">>)),
     Join(ReferenceQpigs)}

QmodTexts == {<<"(", "L">>, <<"(", "B">>, <<"(", "F">>, <<"(", "S">>, <<"(">>}

Qpigs2Texts ==
    {Line(<<<<"0", "1", ".", "5">>, <<"0", "9", "0", ".", "0">>, <<"0", "0", "1", "3", "5">>>>),
     Line(<<<<"0", "1", ".", "5">>, <<"0", "9", "0", ".", "0">>>>),
     Line(<<<<"0", "1", ".", "5">>, <<"0", "9", "0", ".", "0">>, <<"N", "A">>>>)}

\* The frame of a reply: header, unit and function marker, text, two checksum
\* bytes and CR. The decoder drops the last three bytes unread.
AsciiFrame(text) ==
    Header(2 + Len(text) + 3) \o <<255, 4>> \o EncodeAscii(text) \o <<0, 0, 13>>

\* The ids of the n requests of the first batch of an AsyncISolar.
FirstIds(n) == AllocateIds(InitialTransactionId, n)[1]

\* The id before `id`: that of the request sent just before.
StaleId(id) == (id + IdMask) % (IdMask + 1)

\* The response `hex` with `id` in its first two bytes.
WithTransactionId(hex, id) ==
    IF Len(hex) < 4 THEN hex
    ELSE ToHex(<<HighByte(id), LowByte(id)>>) \o SubSeq(hex, 5, Len(hex))

\* What send_bulk can return for the three commands: a reply or none ('') for
\* each, each reply with the id of its request.
AsciiBulkResponses ==
    {<<qpigs, qmod, qpigs2>> :
        qpigs \in {WithTransactionId(ToHex(AsciiFrame(t)), FirstIds(3)[1]) :
                        t \in QpigsTexts} \cup {<<>>},
        qmod \in {WithTransactionId(ToHex(AsciiFrame(t)), FirstIds(3)[2]) :
                        t \in QmodTexts} \cup {<<>>},
        qpigs2 \in {WithTransactionId(ToHex(AsciiFrame(t)), FirstIds(3)[3]) :
                        t \in Qpigs2Texts} \cup {<<>>}}

\* ---- what the inverter sends back ----

\* The content of the inverter's registers: all zero, the address itself, or
\* a running inverter (mode 2, a valid clock).
RegisterFiles == {"zeros", "addresses", "running"}

Content(file, address) ==
    CASE file = "zeros" -> 0
      [] file = "addresses" -> address
      [] OTHER ->
            CASE address = 201 -> 2
              [] address = 696 -> 2024
              [] address = 697 -> 2
              [] address = 698 -> 29
              [] address = 699 -> 23
              [] address = 700 -> 59
              [] address = 701 -> 0
              [] OTHER -> address % 100

\* The well-formed response to the read of a group.
GroupResponse(group, file) ==
    LET words == [k \in 1..group[2] |-> Content(file, group[1] + k - 1)]
    IN  Header(3 + 2 * group[2]) \o BinaryBody(words)

\* The shapes a response arrives in: well-formed; cut to 8 bytes; one byte
\* short of its declared length; one byte longer; its length field two less
\* than what follows; or no response at all.
Shapes == {"ok", "short", "truncated", "extra_byte", "understated", "empty"}

Shaped(group, file, shape) ==
    LET frame == GroupResponse(group, file) IN
    CASE shape = "ok" -> ToHex(frame)
      [] shape = "short" -> ToHex(SubSeq(frame, 1, 8))
      [] shape = "truncated" -> ToHex(SubSeq(frame, 1, Len(frame) - 1))
      [] shape = "extra_byte" -> ToHex(frame \o <<0>>)
      [] shape = "understated" ->
            ToHex(Header(3 + 2 * group[2] - 2) \o SubSeq(frame, 7, Len(frame)))
      [] OTHER -> <<>>

\* The id a response carries: that of the request it is read for, or that
\* of the request before (a reply that arrived late).
CarriedIds == {"echoed", "stale"}

Carried(id, carried) == IF carried = "echoed" THEN id ELSE StaleId(id)

\* The responses send_bulk can return for the groups of a map.
BulkResponses(map, shapes_allowed, ids_allowed) ==
    LET groups == create_register_groups(map) IN
    {[i \in 1..Len(groups) |->
        WithTransactionId(Shaped(groups[i], file, shape[i]),
                          Carried(FirstIds(Len(groups))[i], carried[i]))] :
        file \in RegisterFiles, shape \in [1..Len(groups) -> shapes_allowed],
        carried \in [1..Len(groups) -> ids_allowed]}

\* A map of three groups (a mode register, the battery block, a PV register),
\* with every mix of shapes; and a whole model with all responses well-formed
\* or all missing.
BatteryMap == RegisterMap(<<201, 277, 278, 279, 280, 281, 302>>, Scales_11K)


\* ========================================================================
\*  The QPIGS parsers: async_ascii_commands.parse_qpgis (the same code as
\*  AsyncAsciiInverter._parse_qpgis), pi_parsers.parse_qpigs and the QPIGS
\*  block of AsyncISolar._parse_ascii_responses
\* ========================================================================

\* What a parser gives: a dict, or an exception.
ParsedDict(dict) == [kind |-> "dict", values |-> dict]
ParseRaised(error) == [kind |-> error, values |-> EmptyDict]

InitQpigs ==
    /\ qpigs_raw = <<>>
    /\ qpigs_parser = "none"
    /\ qpigs_parsed = ParsedDict(EmptyDict)
    /\ parse_pc = "off"

\* str.strip(chars)
RECURSIVE StripLeft(_, _)
StripLeft(text, chars) ==
    IF text # <<>> /\ text[1] \in chars THEN StripLeft(Tail(text), chars) ELSE text

RECURSIVE StripRight(_, _)
StripRight(text, chars) ==
    IF text # <<>> /\ text[Len(text)] \in chars
    THEN StripRight(SubSeq(text, 1, Len(text) - 1), chars)
    ELSE text

Strip(text, chars) == StripRight(StripLeft(text, chars), chars)

\* str.split(' '): the pieces between single blanks, empty ones included.
SplitOnBlank(text) ==
    LET blanks == {i \in 1..Len(text) : text[i] = " "}
        Edge(k) ==
            IF k = 0 THEN 0
            ELSE IF k = Cardinality(blanks) + 1 THEN Len(text) + 1
            ELSE CHOOSE i \in blanks : Cardinality({j \in blanks : j < i}) = k - 1
    IN  [k \in 1..(Cardinality(blanks) + 1) |-> SubSeq(text, Edge(k - 1) + 1, Edge(k) - 1)]

\* The dict literal of parse_qpgis.
QpgisTable ==
    [grid_voltage |-> [index |-> 0, type |-> "float"],
     grid_frequency |-> [index |-> 1, type |-> "float"],
     output_voltage |-> [index |-> 2, type |-> "float"],
     output_frequency |-> [index |-> 3, type |-> "float"],
     output_apparent_power |-> [index |-> 4, type |-> "int"],
     output_power |-> [index |-> 5, type |-> "int"],
     output_load_percentage |-> [index |-> 6, type |-> "int"],
     battery_voltage |-> [index |-> 8, type |-> "float"],
     battery_charging_current |-> [index |-> 9, type |-> "int"],
     battery_soc |-> [index |-> 10, type |-> "int"],
     inverter_temperature |-> [index |-> 11, type |-> "int"],
     pv1_current |-> [index |-> 12, type |-> "float"],
     pv1_voltage |-> [index |-> 13, type |-> "float"],
     battery_discharge_current |-> [index |-> 15, type |-> "int"],
     pv_charging_power |-> [index |-> 19, type |-> "int"]]

\* parse_qpgis: {} for fewer than 21 pieces, and {} when a conversion raises
\* (the ValueError is caught).
parse_qpgis(text) ==
    LET fields == SplitOnBlank(Strip(text, {"("})) IN
    IF Len(fields) < QpigsMinFields THEN ParsedDict(EmptyDict)
    ELSE IF BlockRaises(fields, QpgisTable, QpigsMinFields) THEN ParsedDict(EmptyDict)
    ELSE ParsedDict(BlockValues(fields, QpgisTable))

\* The dict literal of pi_parsers.parse_qpigs, in the order it is evaluated.
PiQpigsTable ==
    <<[key |-> "grid_voltage", index |-> 0, type |-> "float"],
      [key |-> "grid_frequency", index |-> 1, type |-> "float"],
      [key |-> "output_voltage", index |-> 2, type |-> "float"],
      [key |-> "output_frequency", index |-> 3, type |-> "float"],
      [key |-> "output_apparent_pow", index |-> 4, type |-> "int"],
      [key |-> "output_active_pow", index |-> 5, type |-> "int"],
      [key |-> "load_percent", index |-> 6, type |-> "int"],
      [key |-> "battery_voltage", index |-> 8, type |-> "float"],
      [key |-> "battery_chg_current", index |-> 9, type |-> "int"],
      [key |-> "battery_soc", index |-> 10, type |-> "int"],
      [key |-> "inverter_temp", index |-> 11, type |-> "int"],
      [key |-> "pv_current", index |-> 12, type |-> "float"],
      [key |-> "pv_voltage", index |-> 13, type |-> "float"],
      [key |-> "pv_power", index |-> 19, type |-> "int"]>>

\* The entries of the literal whose evaluation raises: v[index] is past the
\* end of the list, or the conversion fails.
PiFailing(fields) ==
    {k \in 1..Len(PiQpigsTable) :
        \/ PiQpigsTable[k].index >= Len(fields)
        \/ ~CanConvert(fields[PiQpigsTable[k].index + 1], PiQpigsTable[k].type)}

\* pi_parsers.parse_qpigs: no test of the number of fields and no handler;
\* the first entry that fails gives the exception.
parse_qpigs(text) ==
    LET fields == Split(Strip(text, {"(", ")", "\r"}))
        failing == PiFailing(fields)
    IN  IF failing = {}
        THEN ParsedDict([key \in {PiQpigsTable[k].key : k \in 1..Len(PiQpigsTable)} |->
                LET k == CHOOSE j \in 1..Len(PiQpigsTable) : PiQpigsTable[j].key = key
                IN  Convert(fields[PiQpigsTable[k].index + 1], PiQpigsTable[k].type)])
        ELSE LET first == CHOOSE k \in failing : \A j \in failing : k <= j
             IN  IF PiQpigsTable[first].index >= Len(fields) THEN ParseRaised("IndexError")
                 ELSE ParseRaised("ValueError")

\* The QPIGS block of _parse_ascii_responses, for a response that
\* _query_ascii_commands kept (it begins with '(').
parse_qpigs_block(text) ==
    LET fields == Split(Tail(text)) IN
    IF BlockRaises(fields, QpigsTable, QpigsMinFields) THEN ParseRaised("ValueError")
    ELSE ParsedDict(AfterQpigs(fields))

\* fields = parse_qpgis(raw)
ParseQpgis ==
    /\ parse_pc = "ready"
    /\ qpigs_parser' = "parse_qpgis"
    /\ qpigs_parsed' = parse_qpgis(qpigs_raw)
    /\ parse_pc' = "done"
    /\ UNCHANGED <<notQpigs, qpigs_raw>>

ParseQpigs ==
    /\ parse_pc = "ready"
    /\ qpigs_parser' = "parse_qpigs"
    /\ qpigs_parsed' = parse_qpigs(qpigs_raw)
    /\ parse_pc' = "done"
    /\ UNCHANGED <<notQpigs, qpigs_raw>>

ParseQpigsBlock ==
    /\ parse_pc = "ready"
    /\ qpigs_raw # <<>> /\ qpigs_raw[1] = "("
    /\ qpigs_parser' = "_parse_ascii_responses"
    /\ qpigs_parsed' = parse_qpigs_block(qpigs_raw)
    /\ parse_pc' = "done"
    /\ UNCHANGED <<notQpigs, qpigs_raw>>

NextQpigs == ParseQpgis \/ ParseQpigs \/ ParseQpigsBlock

\* The texts the parsers are given: the reference reply cut to 0..23 fields;
\* the reply with one of fields 5, 8, 10, 13 replaced; closed with ')'; with
\* two blanks after the first field; and without the opening parenthesis.
LongQpigs == ReferenceQpigs \o <<<<"0", "0">>, <<"0", "0", "0">>>>

OtherFields == {<<"N", "A">>, <<"4", ".", "5">>, <<"7">>, <<"-", "3">>}

QpigsInputs ==
    {Line(SubSeq(LongQpigs, 1, n)) : n \in 0..Len(LongQpigs)}
    \cup {Line(WithField(ReferenceQpigs, k, f)) : k \in {5, 8, 10, 13}, f \in OtherFields}
    \cup {Line(ReferenceQpigs) \o <<")">>,
          Line(<<ReferenceQpigs[1] \o <<" ">>>> \o Tail(ReferenceQpigs)),
          Join(ReferenceQpigs)}

\* ========================================================================
\*  Model selection: AsyncISolar.__init__, update_model, and the config entry
\* ========================================================================

\* The addresses and scale factors of EASUN_SMW_8K.
Scales_SMW ==
    <<1, 10, 10, 1, 1, 1, 1, 1, 10, 1, 10, 10, 1, 10, 10, 1, 10, 10, 1, 100,
      10, 10, 1, 1, 1, 100, 1, 1, 1, 1, 1, 1, 100, 100>>

EASUN_SMW_8K ==
    RegisterMap(<<201, 280, 281, 282, 283, 284, 302, 303, 304, 305, 351, 352, 353,
                  389, 390, 391, 338, 339, 340, 341, 346, 347, 348, 349, 350, 351,
                  696, 697, 698, 699, 700, 701, 702, 703>>, Scales_SMW)

ModelConfig(name, map) == [name |-> name, register_map |-> map]

\* MODEL_CONFIGS; EASUN_SMW_11K has a copy of the register map of the 8K.
MODEL_CONFIGS ==
    [ISOLAR_SMG_II_11K |-> ModelConfig("ISOLAR_SMG_II_11K", ISOLAR_SMG_II_11K),
     ISOLAR_SMG_II_6K |-> ModelConfig("ISOLAR_SMG_II_6K", ISOLAR_SMG_II_6K),
     EASUN_SMW_8K |-> ModelConfig("EASUN_SMW_8K", EASUN_SMW_8K),
     EASUN_SMW_11K |-> ModelConfig("EASUN_SMW_11K", EASUN_SMW_8K)]

\* The default of the `model` parameter and of the migration.
DefaultModel == "ISOLAR_SMG_II_11K"

\* The version the migration brings an entry to.
EntryVersion == 4

NoConfig == ModelConfig("none", <<>>)

InitModel ==
    /\ entry_version = EntryVersion
    /\ entry_model = "missing"
    /\ configured = "missing"
    /\ model = "none"
    /\ model_config = NoConfig
    /\ asked = "none"
    /\ select_outcome = "none"
    /\ model_before = <<"none", NoConfig>>

\* async_migrate_entry: an entry of a version below 4 gets a model when it
\* has none, and version 4.
MigrateEntry ==
    /\ entry_version < EntryVersion
    /\ entry_model' = IF entry_model = "missing" THEN DefaultModel ELSE entry_model
    /\ entry_version' = EntryVersion
    /\ UNCHANGED <<notModel, configured, model, model_config, asked, select_outcome,
                   model_before>>

\* `if model not in MODEL_CONFIGS: raise ValueError`, else the two
\* assignments; `given` is the id the caller passed.
Select(given, wanted) ==
    /\ asked' = wanted
    /\ model_before' = <<model, model_config>>
    /\ IF given \in DOMAIN MODEL_CONFIGS
       THEN /\ model' = given
            /\ model_config' = MODEL_CONFIGS[given]
            /\ select_outcome' = "selected"
       ELSE /\ select_outcome' = "ValueError"
            /\ UNCHANGED <<model, model_config>>

\* sensor.async_setup_entry: model = config_entry.data["model"] and
\* AsyncISolar(inverter_ip, local_ip, model=model), for a migrated entry.
SetupEntry ==
    /\ entry_version >= EntryVersion
    /\ model = "none"
    /\ IF entry_model = "missing"
       THEN /\ asked' = configured
            /\ model_before' = <<model, model_config>>
            /\ select_outcome' = "KeyError"
            /\ UNCHANGED <<model, model_config>>
       ELSE Select(entry_model, configured)
    /\ UNCHANGED <<notModel, entry_version, entry_model, configured>>

\* AsyncISolar(inverter_ip, local_ip) and AsyncISolar(..., model=id)
Construct(id) ==
    /\ model = "none"
    /\ Select(IF id = "missing" THEN DefaultModel ELSE id, id)
    /\ UNCHANGED <<notModel, entry_version, entry_model, configured>>

\* isolar.update_model(id)
UpdateModel(id) ==
    /\ model # "none"
    /\ Select(id, id)
    /\ UNCHANGED <<notModel, entry_version, entry_model, configured>>

\* The ids a caller can give: those of MODEL_CONFIGS, the one the config flow
\* offers on top of them, and none at all.
GivenIds == DOMAIN MODEL_CONFIGS \cup {"VOLTRONIC_ASCII", "missing"}

NextModel ==
    \/ MigrateEntry
    \/ SetupEntry
    \/ \E id \in GivenIds : Construct(id)
    \/ \E id \in GivenIds \ {"missing"} : UpdateModel(id)

\* ========================================================================
\*  The poll scheduler: update_data_collector and DataCollector.update_data
\* ========================================================================

\* self._update_timeout = 30
update_timeout == 30

\* `timeout=data_collector._update_timeout + 5`
SchedulerBuffer == 5

\* self._last_update_start = None
NoTime == -1

Polls == 1..MaxPolls

\* started and acquired are the times of an invocation under way.
\* pc: "pending" (not yet invoked) | "waiting" (in update_data, before the
\* lock) | "updating" (holds the lock, _do_update running) | "skipped" |
\* "returned" | "propagated" (an exception left the callback).
NewPoll == [pc |-> "pending", started |-> NoTime, acquired |-> NoTime,
            result |-> "none", forced |-> FALSE]

InitSched ==
    /\ clock = 0
    /\ is_updating = FALSE
    /\ last_update_start = NoTime
    /\ update_lock = 0
    /\ polls = [i \in Polls |-> NewPoll]

Outstanding(i) == polls[i].pc \in {"waiting", "updating"}

\* DataCollector.is_update_stuck
is_update_stuck ==
    IF last_update_start = NoTime
    THEN FALSE
    ELSE clock - last_update_start > update_timeout

\* The scheduler calls update_data_collector(now): the check of is_updating,
\* then the flag, the start time and the call of update_data, which takes
\* the lock at once when it is free and waits for it otherwise.
Fire(i) ==
    /\ polls[i].pc = "pending"
    /\ \A j \in Polls : j < i => polls[j].pc # "pending"
    /\ IF is_updating /\ ~is_update_stuck
       THEN /\ polls' = [polls EXCEPT ![i].pc = "skipped"]
            /\ UNCHANGED <<is_updating, last_update_start, update_lock>>
       ELSE /\ polls' = [polls EXCEPT
                            ![i].pc = IF update_lock = 0 THEN "updating" ELSE "waiting",
                            ![i].started = clock,
                            ![i].acquired = IF update_lock = 0 THEN clock ELSE NoTime,
                            ![i].forced = is_updating]
            /\ update_lock' = IF update_lock = 0 THEN i ELSE update_lock
            /\ is_updating' = TRUE
            /\ last_update_start' = clock
    /\ UNCHANGED <<notSched, clock>>

\* update_data: `await self._lock.acquire()` returns once the holder has
\* released the lock; then the task and its wait_for.
AcquireLock(i) ==
    /\ polls[i].pc = "waiting"
    /\ update_lock = 0
    /\ update_lock' = i
    /\ polls' = [polls EXCEPT ![i].pc = "updating", ![i].acquired = clock]
    /\ UNCHANGED <<notSched, clock, is_updating, last_update_start>>

\* A callback with the first handler alone.
CaughtTimeoutOnly(exc) == exc = "TimeoutError"

\* The handlers of update_data_collector: `except asyncio.TimeoutError` and
\* `except Exception`; every exception a cycle raises is an Exception.
Caught(exc) == exc = "TimeoutError" \/ exc \in {"Exception", "OSError", "ValueError"}

\* The lock once update_data of invocation i has ended with `result`:
\* `finally: self._lock.release()` runs on every way out of the `try`, which
\* the invocation entered only if it had acquired the lock.
LockAfter_NoFinally(i, result) ==
    IF update_lock = i /\ result = "returned" THEN 0 ELSE update_lock

LockAfter(i, result) == IF update_lock = i THEN 0 ELSE update_lock

\* update_data ended with `result` ("returned" or an exception): its
\* `finally` released the lock if it had it, and the `finally` of
\* update_data_collector resets the flag and the start time.
Finish(i, result) ==
    /\ polls' = [polls EXCEPT ![i].pc = IF result = "returned" \/ Caught(result)
                                        THEN "returned" ELSE "propagated",
                              ![i].result = result,
                              ![i].started = NoTime,
                              ![i].acquired = NoTime]
    /\ update_lock' = LockAfter(i, result)
    /\ is_updating' = FALSE
    /\ last_update_start' = NoTime
    /\ UNCHANGED <<notSched, clock>>

\* _do_update returned (data stored or the failure counted).
UpdateReturns(i) ==
    /\ polls[i].pc = "updating"
    /\ Finish(i, "returned")

\* get_all_data raised inside _do_update: a connection error (OSError) or a
\* frame or parse error (ValueError).
UpdateRaises(i, exc) ==
    /\ polls[i].pc = "updating"
    /\ Finish(i, exc)

\* wait_for(update_task, 30) timed out: the task is cancelled and update_data
\* raises Exception("Update timed out").
UpdateTimesOut(i) ==
    /\ polls[i].pc = "updating"
    /\ clock - polls[i].acquired >= update_timeout
    /\ Finish(i, "Exception")

\* wait_for(data_collector.update_data(), 35) timed out: update_data is
\* cancelled wherever it is and asyncio.TimeoutError reaches the handler.
SchedulerTimesOut(i) ==
    /\ Outstanding(i)
    /\ clock - polls[i].started >= update_timeout + SchedulerBuffer
    /\ Finish(i, "TimeoutError")

\* Time passes; no invocation stays beyond the timeout of the scheduler.
Tick ==
    /\ clock + TimeStep <= MaxTime
    /\ \A i \in Polls :
           Outstanding(i) => clock - polls[i].started < update_timeout + SchedulerBuffer
    /\ clock' = clock + TimeStep
    /\ UNCHANGED <<notSched, is_updating, last_update_start, update_lock, polls>>

NextSched ==
    \/ \E i \in Polls : Fire(i)
    \/ \E i \in Polls : AcquireLock(i)
    \/ \E i \in Polls : UpdateReturns(i)
    \/ \E i \in Polls, exc \in {"OSError", "ValueError"} : UpdateRaises(i, exc)
    \/ \E i \in Polls : UpdateTimesOut(i)
    \/ \E i \in Polls : SchedulerTimesOut(i)
    \/ Tick

\* ========================================================================
\*  The checksum bytes of an ASCII frame
\* ========================================================================

InitCrc ==
    /\ crc_value = 0
    /\ crc_placed = <<>>

\* create_request and _build_command_packet: crc_high, crc_low and 0x0D are
\* appended to the command.
PlaceCrc ==
    /\ crc_placed = <<>>
    /\ crc_placed' = <<adjust_crc_byte(HighByte(crc_value)),
                       adjust_crc_byte(LowByte(crc_value)), 13>>
    /\ UNCHANGED <<notCrc, crc_value>>

NextCrc == PlaceCrc

\* ========================================================================
\*  ModbusClient.send: discovery, listener and exchange of each attempt
\* ========================================================================

\* retry_count: int = 2
DefaultSendRetries == 2

\* The six bytes a response needs for its length field to be read.
HeaderBytes == 6

InitModbus ==
    /\ mc_retry_count = DefaultSendRetries
    /\ mc_attempt = 0
    /\ mc_pc = "off"
    /\ mc_listening = FALSE
    /\ mc_datagrams = 0
    /\ mc_blind = 0
    /\ mc_received = 0
    /\ mc_result = "pending"
    /\ mc_log = ""

\* `for attempt in range(retry_count)`: the next attempt begins ...
BeginAttempt ==
    /\ mc_pc = "loop"
    /\ mc_attempt < mc_retry_count
    /\ mc_pc' = "discovery"
    /\ mc_datagrams' = 0
    /\ UNCHANGED <<notModbus, mc_retry_count, mc_attempt, mc_listening, mc_blind,
                   mc_received, mc_result,
                   mc_log>>

\* ... or the loop is over: return "".
AllAttemptsFailed ==
    /\ mc_pc = "loop"
    /\ mc_attempt >= mc_retry_count
    /\ mc_pc' = "done"
    /\ mc_result' = ""
    /\ UNCHANGED <<notModbus, mc_retry_count, mc_attempt, mc_listening, mc_datagrams,
                   mc_blind, mc_received,
                   mc_log>>

\* send_udp_discovery: udp_sock.sendto(...)
SendUdpDiscovery ==
    /\ mc_pc = "discovery"
    /\ mc_datagrams' = mc_datagrams + 1
    /\ mc_blind' = IF mc_listening THEN mc_blind ELSE mc_blind + 1
    /\ mc_pc' = "recvfrom"
    /\ UNCHANGED <<notModbus, mc_retry_count, mc_attempt, mc_listening, mc_received,
                   mc_result,
                   mc_log>>

\* udp_sock.recvfrom(1024) returns: send_udp_discovery gives True.
DiscoveryAnswered ==
    /\ mc_pc = "recvfrom"
    /\ mc_pc' = "bind"
    /\ UNCHANGED <<notModbus, mc_retry_count, mc_attempt, mc_listening, mc_datagrams,
                   mc_blind, mc_received, mc_result,
                   mc_log>>

\* An attempt is given up: the line logged, then `continue` after the sleep.
GiveUpAttempt(line) ==
    /\ mc_log' = line
    /\ mc_attempt' = mc_attempt + 1
    /\ mc_listening' = FALSE
    /\ mc_pc' = "loop"
    /\ UNCHANGED <<notModbus, mc_retry_count, mc_datagrams, mc_blind, mc_received,
                   mc_result>>

\* sendto or recvfrom raises (socket.timeout or another error):
\* send_udp_discovery gives False.
DiscoveryFails ==
    /\ mc_pc \in {"discovery", "recvfrom"}
    /\ GiveUpAttempt("UDP discovery failed")

\* tcp_server.bind(...) and listen(1)
BindAndListen ==
    /\ mc_pc = "bind"
    /\ mc_listening' = TRUE
    /\ mc_pc' = "accept"
    /\ UNCHANGED <<notModbus, mc_retry_count, mc_attempt, mc_datagrams, mc_blind,
                   mc_received, mc_result,
                   mc_log>>

\* bind or accept raises: the `with` closes tcp_server.
ListenerFails ==
    /\ mc_pc \in {"bind", "accept"}
    /\ GiveUpAttempt("Socket timeout")

\* tcp_server.accept(), client_sock.sendall(command_bytes) and the first
\* client_sock.recv(1024), which gives `n` bytes.
Exchange(n) ==
    /\ mc_pc = "accept"
    /\ mc_received' = n
    /\ mc_pc' = IF n >= HeaderBytes /\ n < MaxFrameBytes THEN "more" ELSE "return"
    /\ UNCHANGED <<notModbus, mc_retry_count, mc_attempt, mc_listening, mc_datagrams,
                   mc_blind, mc_result,
                   mc_log>>

\* `while len(response) < expected_length`: another chunk of n bytes; an
\* empty chunk ends the loop.
ReceiveChunk(n) ==
    /\ mc_pc = "more"
    /\ mc_received + n <= MaxFrameBytes
    /\ mc_received' = mc_received + n
    /\ mc_pc' = IF n = 0 \/ mc_received + n >= MaxFrameBytes THEN "return" ELSE "more"
    /\ UNCHANGED <<notModbus, mc_retry_count, mc_attempt, mc_listening, mc_datagrams,
                   mc_blind, mc_result,
                   mc_log>>

\* return response_hex: the `with` blocks close both sockets.
ReturnResponse ==
    /\ mc_pc = "return"
    /\ mc_listening' = FALSE
    /\ mc_result' = "response"
    /\ mc_pc' = "done"
    /\ UNCHANGED <<notModbus, mc_retry_count, mc_attempt, mc_datagrams, mc_blind,
                   mc_received,
                   mc_log>>

NextModbus ==
    \/ BeginAttempt
    \/ AllAttemptsFailed
    \/ SendUdpDiscovery
    \/ DiscoveryAnswered
    \/ DiscoveryFails
    \/ BindAndListen
    \/ ListenerFails
    \/ \E n \in 0..MaxFrameBytes : Exchange(n)
    \/ \E n \in 0..MaxFrameBytes : ReceiveChunk(n)
    \/ ReturnResponse

\* ========================================================================
\*  Specifications
\* ========================================================================

Init == InitPI /\ InitAscii /\ InitIds /\ InitDC /\ InitCodec /\ InitSnap /\ InitQpigs /\ InitModel /\ InitSched /\ InitCrc /\ InitClient /\ InitModbus

\* The inputs of the codec: a request to encode and decode again, or a
\* response off the wire (already the hex string of its bytes) to decode.
InputsCodec ==
    /\ InitPI /\ InitAscii /\ InitIds /\ InitDC /\ InitSnap /\ InitQpigs /\ InitModel /\ InitSched /\ InitCrc /\ InitClient /\ InitModbus
    /\ decoded = Pending
    /\ \/ /\ codec_pc = "encode"
          /\ request \in Requests
          /\ response = <<>>
          /\ decode_args = [register_count |-> 1, data_format |-> "Int",
                            is_ascii |-> request.ascii_command # NoCommand]
       \/ /\ codec_pc = "decode"
          /\ request = NoRequest
          /\ \/ /\ response \in {ToHex(frame) : frame \in Frames(BinaryBodies)}
                /\ decode_args \in BinaryDecodeArgs
             \/ /\ response \in {ToHex(frame) : frame \in Frames(AsciiBodies)}
                /\ decode_args \in AsciiDecodeArgs

\* The register maps to group.
InputsGroups ==
    /\ InitPI /\ InitAscii /\ InitIds /\ InitDC /\ InitCodec /\ InitQpigs /\ InitModel /\ InitSched /\ InitCrc /\ InitClient /\ InitModbus
    /\ protocol = "numerical"
    /\ command_responses = EmptyDict
    /\ register_map \in RegisterMaps
    /\ register_groups = <<>>
    /\ bulk = BulkReturned(<<>>)
    /\ results = <<>>
    /\ values = EmptyDict
    /\ decoded_keys = {}
    /\ all_data = NoSnapshot
    /\ snap_pc = "groups"

\* The cycles of get_all_data: a register map and what send_bulk gives for
\* its groups.
InputsSnapshot ==
    /\ InitPI /\ InitAscii /\ InitIds /\ InitDC /\ InitCodec /\ InitQpigs /\ InitModel /\ InitSched /\ InitCrc /\ InitClient /\ InitModbus
    /\ \/ /\ protocol = "numerical"
          /\ register_map = BatteryMap
          /\ \/ bulk \in {BulkReturned(r) :
                            r \in BulkResponses(BatteryMap, Shapes, {"echoed"})
                                  \cup BulkResponses(BatteryMap, {"ok"}, CarriedIds)}
             \/ bulk \in {BulkRaised, BulkReturned(<<>>)}
       \/ /\ protocol = "numerical"
          /\ register_map \in {ISOLAR_SMG_II_11K, ISOLAR_SMG_II_6K, EASUN_SMW_8K}
          /\ bulk \in {BulkReturned(r) :
                        r \in BulkResponses(register_map, {"ok"}, {"echoed"})
                              \cup BulkResponses(register_map, {"empty"}, {"echoed"})}
       \/ /\ protocol = "numerical"
          /\ register_map = ISOLAR_SMG_II_6K
          /\ bulk \in {BulkReturned(r) :
                        r \in BulkResponses(ISOLAR_SMG_II_6K, Shapes, {"echoed"})}
       \/ /\ protocol = "numerical"
          /\ register_map = <<>>
          /\ bulk = BulkReturned(<<>>)
       \/ /\ protocol = "ascii"
          /\ register_map = <<>>
          /\ \/ bulk \in {BulkReturned(r) : r \in AsciiBulkResponses}
             \/ bulk \in {BulkRaised, BulkReturned(<<>>)}
    /\ command_responses = EmptyDict
    /\ register_groups = <<>>
    /\ results = <<>>
    /\ values = EmptyDict
    /\ decoded_keys = {}
    /\ all_data = NoSnapshot
    /\ snap_pc = "groups"

NextSnapshot ==
    \/ QueryAsciiCommands
    \/ ParseAsciiResponses
    \/ CreateRegisterGroups
    \/ ReadGroups
    \/ NoResults
    \/ MergeValues
    \/ CreateDataObjects

\* The texts handed to the QPIGS parsers.
InputsQpigs ==
    /\ InitPI /\ InitAscii /\ InitIds /\ InitDC /\ InitCodec /\ InitSnap /\ InitModel /\ InitSched /\ InitCrc /\ InitClient /\ InitModbus
    /\ qpigs_raw \in QpigsInputs
    /\ qpigs_parser = "none"
    /\ qpigs_parsed = ParsedDict(EmptyDict)
    /\ parse_pc = "ready"

\* The config entries: of the version before the model was stored or of
\* the current one, with one of the ids or none.
InputsModel ==
    /\ InitPI /\ InitAscii /\ InitIds /\ InitDC /\ InitCodec /\ InitSnap /\ InitQpigs /\ InitSched /\ InitCrc /\ InitClient /\ InitModbus
    /\ entry_version \in {EntryVersion - 1, EntryVersion}
    /\ entry_model \in GivenIds
    /\ configured = entry_model
    /\ model = "none"
    /\ model_config = NoConfig
    /\ asked = "none"
    /\ select_outcome = "none"
    /\ model_before = <<"none", NoConfig>>

SpecAscii == Init /\ [][NextAscii]_vars


SpecBulk == Init /\ [][NextBulk]_vars

SpecIds == Init /\ [][NextIds]_vars

SpecCollector == Init /\ [][NextDC]_vars

SpecCodec == InputsCodec /\ [][NextCodec]_vars

SpecGroups == InputsGroups /\ [][NextGroups]_vars

SpecSnapshot == InputsSnapshot /\ [][NextSnapshot]_vars

SpecQpigs == InputsQpigs /\ [][NextQpigs]_vars

SpecModel == InputsModel /\ [][NextModel]_vars

SpecScheduler == Init /\ [][NextSched]_vars

\* Every 16-bit checksum, hence every pair of bytes 0..255.
InputsCrc ==
    /\ InitPI /\ InitAscii /\ InitIds /\ InitDC /\ InitCodec /\ InitSnap /\ InitQpigs /\ InitClient /\ InitModbus
    /\ InitModel /\ InitSched
    /\ crc_value \in 0..65535
    /\ crc_placed = <<>>

SpecCrc == InputsCrc /\ [][NextCrc]_vars

\* The calls of ModbusClient.send, with every retry_count.
InputsModbus ==
    /\ InitPI /\ InitAscii /\ InitIds /\ InitDC /\ InitCodec /\ InitSnap /\ InitQpigs
    /\ InitModel /\ InitSched /\ InitCrc /\ InitClient
    /\ mc_retry_count \in 1..MaxSendRetries
    /\ mc_attempt = 0
    /\ mc_pc = "loop"
    /\ mc_listening = FALSE
    /\ mc_datagrams = 0
    /\ mc_blind = 0
    /\ mc_received = 0
    /\ mc_result = "pending"
    /\ mc_log = ""

SpecDiscovery == InputsModbus /\ [][NextModbus]_vars

\* ========================================================================
\*  Properties of AsyncPIClient.send_bulk (SpecBulk)
\* ========================================================================

\* C1: send_bulk returns either a response for every command or the empty
\* list, never a non-empty list shorter than the command list.
C1_AllOrNothing ==
    outcome = "returned" =>
        \/ returned = <<>>
        \/ Len(returned) = commands

\* A call returned [] although its last attempt had collected some, but not
\* all, of the replies.
C1_Witness ==
    /\ outcome = "returned"
    /\ returned = <<>>
    /\ Len(responses) > 0
    /\ Len(responses) < commands

\* C2: when send_bulk returns failure for a non-empty command list after a
\* command timed out, hit a short read or found the writer closing, the
\* session is marked not connected at the moment the call returns.
C2_FailureMarksDisconnected ==
    (/\ outcome = "returned"
     /\ commands > 0
     /\ returned = <<>>
     /\ cmd_failed) => ~flag_at_end

\* A call with commands returned [] after losing a command in an attempt that
\* had a connection.
C2_Witness ==
    /\ outcome = "returned"
    /\ commands > 0
    /\ returned = <<>>
    /\ cmd_failed
    /\ attempts_started > 0
    /\ ~flag_at_end

\* C6: after an I/O error or short read the failing call ends with the
\* session no longer marked connected, and no later command is written to
\* the connection on which the error happened.
C6_FailureInvalidatesSession ==
    /\ (/\ outcome \in {"returned", "raised"}
        /\ cmd_failed
        /\ Len(returned) # commands) => ~flag_at_end
    /\ \A t \in Calls :
        pi_pc[t] = "readuntil" => ~writer_invalid

\* C7: once a call was cancelled with a command in flight, no later command
\* is written to the connection that was in use.
C7_CancelledConnectionNotReused ==
    \A t \in Calls :
        pi_pc[t] = "readuntil" => ~writer_tainted

\* C8: within one attempt the traffic is write 1, read 1, write 2, read 2,
\* ...: a command is written only when the reply to the one before it has
\* been read.
C8_OneInFlight ==
    \A i \in 1..Len(wire) :
        wire[i] = IF i % 2 = 1 THEN <<"write", (i + 1) \div 2>>
                               ELSE <<"read", i \div 2>>

\* The second command of a batch has been written, after the reply to the
\* first was read.
C8_Witness ==
    /\ Len(wire) >= 3
    /\ wire[3] = <<"write", 2>>

\* C9: send_bulk makes at most retry_count attempts, and a call that did not
\* get every reply ends only by returning [] after its retry_count-th
\* attempt: every failed attempt before that is followed by a new one.
C9_RetryUntilExhausted ==
    /\ attempt <= retry_count
    /\ attempts_started <= retry_count
    /\ (/\ outcome \in {"returned", "raised"}
        /\ commands > 0
        /\ Len(returned) # commands) =>
            /\ outcome = "returned"
            /\ returned = <<>>
            /\ attempt = retry_count

\* send_bulk returned a response for every command of a non-empty list.
BulkSucceeded ==
    /\ outcome = "returned"
    /\ commands > 0
    /\ Len(returned) = commands

\* C34: when send_bulk succeeds, response i of the returned list is the reply
\* read right after command i was written, every one of them in the attempt
\* that returned and on the connection of that attempt; the traffic of that
\* attempt is write 1, read 1, ..., write n, read n, and no response of an
\* earlier attempt is in the list.
C34_ResponsesOfOneAttempt ==
    BulkSucceeded =>
        /\ \A i \in 1..commands : returned[i] = <<attempts_started, pi_writer, i>>
        /\ Len(wire) = 2 * commands
        /\ \A i \in 1..commands :
             wire[2 * i - 1] = <<"write", i>> /\ wire[2 * i] = <<"read", i>>

\* A call succeeded on a later attempt and a new connection, after an
\* attempt that lost a command.
C34_Witness ==
    /\ BulkSucceeded
    /\ commands >= 2
    /\ attempts_started >= 2
    /\ cmd_failed
    /\ pi_writer >= 2

\* ========================================================================
\*  Properties of AsyncAsciiClient (SpecAscii)
\* ========================================================================

\* The task is inside send_command, past its `async with self._lock`.
InsideSendCommand(t) ==
    /\ Len(stack[t]) >= 1
    /\ stack[t][1] = "send_command"
    /\ ~(Len(stack[t]) = 1 /\ ac_pc[t] = "lock")

C4_SendCommandGetsThroughConnect ==
    \A t \in Tasks :
        ~(/\ stack[t] = <<"send_command", "connect">>
          /\ ac_pc[t] = "lock"
          /\ ac_lock = t)

\* C5: a connect() whose wait for the reverse connection timed out gets
\* through disconnect() and ends: it is never left waiting, listener still
\* open, for a lock that it holds itself.
C5_TimedOutConnectEnds ==
    \A t \in Tasks :
        ~(/\ stack[t] = <<"connect", "disconnect">>
          /\ ac_pc[t] = "lock"
          /\ ac_lock = t
          /\ server = "listening")

\* C10: an inbound connection that arrives while one is established is closed
\* and leaves the stored reader and writer (and the event) as they are.
C10_SecondInboundRejected ==
    [][(arrived' # arrived /\ connection_established) =>
          /\ reader' = reader
          /\ writer' = writer
          /\ connection_established'
          /\ arrived' \in closed']_vars

\* A later inbound connection was closed while the adopted one is still the
\* session's connection.
C10_Witness ==
    /\ connection_established
    /\ writer # NoConn
    /\ reader = writer
    /\ \E c \in closed : c > writer

\* The session is Idle: no reader, no writer, no listener, the event unset.
Idle ==
    /\ reader = NoConn
    /\ writer = NoConn
    /\ server = "None"
    /\ ~connection_established

\* Task t is inside a disconnect() called by the task itself.
InDisconnect(t) == stack[t] = <<"disconnect">> /\ ac_pc[t] \in {"lock", "close_server"}

C39_FlagImpliesHandles ==
    /\ [](connection_established => (reader # NoConn /\ writer # NoConn))
    /\ [][\A t \in Tasks :
            (ac_pc[t] = "close_server" /\ ac_pc'[t] # "close_server") =>
                /\ ~connection_established'
                /\ reader' = NoConn
                /\ writer' = NoConn
                /\ server' = "None"]_vars

\* The one connection that came in was adopted, and a disconnect() closed it
\* and cleared the session.
C39_Witness ==
    /\ disconnects = 1
    /\ arrived = 1
    /\ closed = {1}
    /\ ~connection_established
    /\ reader = NoConn
    /\ writer = NoConn
    /\ server = "None"

\* C12: connect() on a session whose event is set changes nothing. The step
\* connect() takes from the lock is its return: no listener is opened, no
\* datagram is sent, reader, writer, server and the event stay as they were
\* and the lock is free again.
C12_ConnectOnConnectedIsNoop ==
    [][\A t \in Tasks :
        (/\ ac_pc[t] = "lock" /\ stack[t] = <<"connect">>
         /\ connection_established
         /\ ac_pc'[t] # ac_pc[t]) =>
            /\ ac_pc'[t] = "done" /\ ac_outcome'[t] = "returned"
            /\ ac_lock' = 0
            /\ UNCHANGED <<reader, writer, server, connection_established,
                           udp_sent, arrived, closed>>]_vars

\* A connect() has returned on a session that was connected all along: one
\* datagram was ever sent, by the connect() that set the session up, and both
\* tasks are done with the event still set.
C12_Witness ==
    /\ connection_established /\ writer # NoConn /\ server = "listening"
    /\ udp_sent = 1
    /\ \A t \in Tasks : ac_pc[t] = "done" /\ ac_outcome[t] = "returned"
    /\ \E t \in Tasks : ops[t] = 1

\* ========================================================================
\*  Properties of the transaction ids (SpecIds)
\* ========================================================================

\* The id that follows `id` in the 16-bit sequence.
Successor(id) == IF id = IdMask THEN 0 ELSE id + 1

\* C13: the ids of a batch and the counter lie in 0..0xFFFF; each id of the
\* batch is followed by its successor modulo 2^16 (0xFFFF by 0), the last one
\* by the counter; the ids of one batch are pairwise distinct; and the id
\* handed out first is not due again before 65536 ids have been handed out.
C13_TransactionIds ==
    /\ transaction_id \in 0..IdMask
    /\ \A i \in 1..Len(requests) :
        /\ requests[i] \in 0..IdMask
        /\ i < Len(requests) => requests[i + 1] = Successor(requests[i])
        /\ i = Len(requests) => transaction_id = Successor(requests[i])
    /\ \A i, j \in 1..Len(requests) : i # j => requests[i] # requests[j]
    /\ allocated \in 1..IdMask => transaction_id # InitialTransactionId
    /\ allocated = IdMask + 1 => transaction_id = InitialTransactionId

\* A batch whose ids run over the wrap: 0xFFFF and 0x0000 in one batch.
C13_Witness ==
    /\ Len(requests) >= 2
    /\ \E i \in 1..(Len(requests) - 1) : requests[i] = IdMask /\ requests[i + 1] = 0

\* ========================================================================
\*  Properties of the DataCollector (SpecCollector)
\* ========================================================================

\* C14: after 5 poll cycles in a row that failed, whether they returned no
\* data, timed out or raised, the stored snapshot is empty.
C14_StaleSnapshotCleared ==
    (dc_pc = "idle" /\ failed_cycles >= max_consecutive_failures) => data = 0

\* A cycle ends in this step.
CycleEnds == dc_pc = "updating" /\ dc_pc' = "idle"

\* C36: a cycle that did not store data and leaves the failure count below 5
\* leaves the snapshot as it was; a cycle that returned a sub-record stores a
\* non-empty snapshot and resets the count to 0; and whenever the count is 5
\* or more the snapshot is empty.
C36_SnapshotAndFailureCount ==
    /\ [](consecutive_failures >= max_consecutive_failures => data = 0)
    /\ [][CycleEnds =>
            /\ (last_cycle' # "stored" /\ consecutive_failures' < max_consecutive_failures)
                    => data' = data
            /\ last_cycle' = "stored" => (data' # 0 /\ consecutive_failures' = 0)
            /\ last_cycle' = "no data" => consecutive_failures' = consecutive_failures + 1]_vars

\* The fourth cycle in a row without data has ended and the snapshot stored
\* before them is still there.
C36_Witness ==
    /\ dc_pc = "idle"
    /\ last_cycle = "no data"
    /\ consecutive_failures = max_consecutive_failures - 1
    /\ data # 0

\* The count is past 5 and the snapshot empty.
CountPastMaximum ==
    /\ consecutive_failures > max_consecutive_failures
    /\ data = 0

\* ========================================================================
\*  Properties of the frame codec (SpecCodec)
\* ========================================================================

\* The bytes of the response that was decoded.
Frame == FromHex(response)

\* A response off the wire has been decoded.
DecodedResponse == codec_pc = "done" /\ request = NoRequest

\* The frame is malformed: shorter than 9 bytes, or its length is not 6 plus
\* the length its header declares.
Malformed(frame) ==
    \/ Len(frame) < 9
    \/ Len(frame) # 6 + FromBytesBig(frame[5], frame[6])

\* C17: every frame shorter than 9 bytes and every frame whose length is not 6
\* plus its declared length decodes to the empty result: [] for a binary
\* decode, None for an ASCII one.
C17_MalformedDecodesEmpty ==
    (DecodedResponse /\ Malformed(Frame)) => decoded = EmptyResult(decode_args.is_ascii)

\* The i-th 16-bit word after the byte count of the frame.
WordAt(frame, i) == FromBytesBig(frame[8 + 2 * i], frame[9 + 2 * i])

\* C19: a binary decode returns at most register_count values; in "Int"
\* format the i-th value is the i-th word w of the frame if w < 0x8000 and
\* w - 65536 otherwise, so it lies in -32768..32767; in any other format it is
\* w itself, in 0..65535.
C19_SignExtension ==
    (DecodedResponse /\ ~decode_args.is_ascii) =>
        /\ decoded.kind = "list"
        /\ Len(decoded.values) <= decode_args.register_count
        /\ \A i \in 1..Len(decoded.values) :
            LET w == WordAt(Frame, i)
                v == decoded.values[i]
            IN  IF decode_args.data_format = "Int"
                THEN /\ v = (IF w < 32768 THEN w ELSE w - 65536)
                     /\ v \in -32768..32767
                ELSE v = w /\ v \in 0..65535

\* A signed decode has returned -32768 for 0x8000 next to 32767 for 0x7FFF,
\* and fewer values than the frame holds were asked for or all of them.
C19_Witness ==
    /\ DecodedResponse /\ ~decode_args.is_ascii
    /\ decode_args.data_format = "Int"
    /\ decoded.values = <<-32768, 32767>>

\* A request has been encoded by create_request and the frame decoded again.
RoundTrip == codec_pc = "done" /\ request # NoRequest

\* What decoding the frame of request req gives.
DecodedFrom(req) ==
    DecodeModbusResponse(create_request(req), 1, "Int", req.ascii_command # NoCommand)

\* The requests of the same kind as req.
SameKind(req) == IF req.ascii_command # NoCommand THEN AsciiRequests ELSE RegisterRequests

\* C18: decoding the frame produced by create_request recovers the request's
\* transaction id and payload (the command text, or unit id, function code,
\* address and count): what was decoded tells the request apart from every
\* other request of its kind.
C18_RoundTripRecoversRequest ==
    RoundTrip => \A other \in SameKind(request) : DecodedFrom(other) = decoded => other = request

\* ========================================================================
\*  Properties of the register groups (SpecGroups)
\* ========================================================================

\* The addresses to read: those of the map that are above 0.
Wanted == {register_map[i].address : i \in 1..Len(register_map)} \ {0}

GroupStart(g) == g[1]
GroupEnd(g) == g[1] + g[2] - 1

\* C20: the groups are exactly those of the greedy rule over the sorted
\* addresses above 0. Every group starts and ends on a wanted address; the
\* groups come in ascending order, each more than 10 past the end of the one
\* before; every wanted address lies in a group; and inside a group no wanted
\* address is more than 10 from the next one. The example addresses give
\* exactly (201,1), (215,1), (277,5), (302,1).
C20_GreedyGroups ==
    snap_pc = "read" =>
        /\ \A k \in 1..Len(register_groups) :
            LET g == register_groups[k] IN
            /\ GroupStart(g) \in Wanted /\ GroupEnd(g) \in Wanted
            /\ k > 1 => GroupStart(g) > GroupEnd(register_groups[k - 1]) + GapTolerance
            /\ \A a \in Wanted :
                (GroupStart(g) <= a /\ a < GroupEnd(g)) =>
                    \E b \in Wanted : a < b /\ b <= a + GapTolerance
        /\ \A a \in Wanted :
            \E k \in 1..Len(register_groups) :
                GroupStart(register_groups[k]) <= a /\ a <= GroupEnd(register_groups[k])
        /\ register_map = ExampleMap =>
            register_groups = <<(<<201, 1>>), (<<215, 1>>), (<<277, 5>>), (<<302, 1>>)>>

\* The example has been grouped.
C20_Witness ==
    /\ snap_pc = "read"
    /\ register_map = ExampleMap
    /\ Len(register_groups) = 4

\* ========================================================================
\*  Properties of get_all_data (SpecSnapshot)
\* ========================================================================

\* The values of a cycle have been merged from one response per group.
Merged ==
    /\ snap_pc \in {"build", "done"}
    /\ results # <<>>
    /\ bulk.outcome = "returned"
    /\ Len(bulk.responses) = Len(register_groups)

\* The response to group i is malformed.
MalformedGroup(i) == Malformed(FromHex(bulk.responses[i]))

\* C16: when the responses of a bulk read are some malformed and some
\* well-formed, a quantity has a value exactly if its address lies in the span
\* of a group whose response is well-formed.
C16_OnlyWellFormedGroups ==
    ( /\ Merged
      /\ \E i \in 1..Len(register_groups) : MalformedGroup(i)
      /\ \E i \in 1..Len(register_groups) : ~MalformedGroup(i) )
    => \A k \in 1..Len(register_map) : \A i \in 1..Len(register_groups) :
          InGroup(register_map[k].address, register_groups, i)
          => (register_map[k].name \in DOMAIN values <=> ~MalformedGroup(i))

\* The value is the number 0 (not None).
IsZero(v) == v.den # 0 /\ v.num = 0

\* The sub-record is None, or every field of it that reads 0 is read from a
\* key that was decoded.
NoInventedZero(record, keys_of_fields) ==
    record.present =>
        \A field \in DOMAIN record.fields :
            IsZero(record.fields[field]) => keys_of_fields[field] \in decoded_keys

SystemKeys == [operating_mode |-> "operation_mode"]

\* C15: in what get_all_data returns, the battery record is there only if all
\* its mandatory keys were decoded in this cycle, each other record only if
\* one of its mandatory keys was, and no field of a record that is there
\* reads 0 for a quantity that was not decoded.
C15_OnlyDecodedData ==
    all_data.outcome = "returned" =>
        /\ all_data.battery.present => BatteryMandatory \subseteq decoded_keys
        /\ all_data.pv.present => PVMandatory \cap decoded_keys # {}
        /\ all_data.grid.present => GridMandatory \cap decoded_keys # {}
        /\ all_data.output.present => OutputMandatory \cap decoded_keys # {}
        /\ all_data.system.present => "operation_mode" \in decoded_keys
        /\ NoInventedZero(all_data.battery, BatteryKeys)
        /\ NoInventedZero(all_data.pv, PVKeys)
        /\ NoInventedZero(all_data.grid, GridKeys)
        /\ NoInventedZero(all_data.output, OutputKeys)
        /\ NoInventedZero(all_data.system, SystemKeys)

\* ========================================================================
\*  Properties of the QPIGS parsers (SpecQpigs)
\* ========================================================================

\* The whitespace-separated fields of the response that was parsed.
ResponseFields == Split(Strip(qpigs_raw, {"("}))

\* Every field a parser converts is a number of the kind it is converted to.
NumericFields(fields) ==
    \A key \in DOMAIN QpgisTable :
        CanConvert(fields[QpgisTable[key].index + 1], QpgisTable[key].type)

HasValue(result, key, v) ==
    result.kind = "dict" /\ key \in DOMAIN result.values /\ result.values[key] = v

\* C21: a QPIGS response of fewer than 21 fields parses to no key/value pairs
\* and no exception; one of 21 or more numeric fields gives battery_voltage,
\* battery_soc and pv1_voltage the values of fields 8, 10 and 13.
C21_QpigsFieldCount ==
    parse_pc = "done" =>
        /\ Len(ResponseFields) < QpigsMinFields => qpigs_parsed = ParsedDict(EmptyDict)
        /\ (Len(ResponseFields) >= QpigsMinFields /\ NumericFields(ResponseFields)) =>
                /\ HasValue(qpigs_parsed, "battery_voltage", FloatOf(ResponseFields[9]))
                /\ HasValue(qpigs_parsed, "battery_soc", IntOf(ResponseFields[11]))
                /\ HasValue(qpigs_parsed, "pv1_voltage", FloatOf(ResponseFields[14]))

\* ========================================================================
\*  Properties of the ASCII path of get_all_data (SpecSnapshot)
\* ========================================================================

\* The response kept for a command has too few fields, or a field that its
\* conversion rejects.
FieldParseError(cmd, table, min_fields) ==
    /\ cmd \in DOMAIN command_responses
    /\ \/ Len(FieldsOf(command_responses, cmd)) < min_fields
       \/ BlockRaises(FieldsOf(command_responses, cmd), table, min_fields)

\* The QPIGS response was kept and parses.
QpigsParses ==
    "QPIGS" \in DOMAIN command_responses /\ ~FieldParseError("QPIGS", QpigsTable, QpigsMinFields)

\* An ASCII cycle has ended in which QPIGS parses and the response to another
\* command has a field error.
OtherCommandFails ==
    /\ protocol = "ascii"
    /\ snap_pc = "done"
    /\ QpigsParses
    /\ \/ FieldParseError("QPIGS2", Qpigs2Table, Qpigs2MinFields)
       \/ "QMOD" \in DOMAIN command_responses /\ Len(command_responses["QMOD"]) < 2

\* C22: a field error in the response to a command other than QPIGS drops
\* only that command: get_all_data returns, with the sub-records that the
\* QPIGS response supports.
C22_FieldErrorDropsOneCommand ==
    OtherCommandFails =>
        /\ all_data.outcome = "returned"
        /\ all_data.pv.present
        /\ all_data.grid.present
        /\ all_data.output.present

\* ========================================================================
\*  Properties of the model selection (SpecModel)
\* ========================================================================

\* C23: a selection of an id outside MODEL_CONFIGS ends with an error and
\* leaves model and model_config as they were; the selected model is always
\* the id that was asked for, never a default put in place of an unknown or
\* missing one; and model_config is MODEL_CONFIGS[model].
C23_UnknownModelRejected ==
    /\ (select_outcome # "none" /\ asked \notin DOMAIN MODEL_CONFIGS) =>
            /\ select_outcome # "selected"
            /\ <<model, model_config>> = model_before
    /\ model # "none" =>
            /\ model \in DOMAIN MODEL_CONFIGS
            /\ model_config = MODEL_CONFIGS[model]
    /\ select_outcome = "selected" => model = asked

\* ========================================================================
\*  Properties of the poll scheduler (SpecScheduler)
\* ========================================================================

Failed(i) == polls[i].result \in {"OSError", "ValueError", "Exception", "TimeoutError"}

\* C24: whatever way a poll cycle fails, no exception leaves the callback;
\* the step that ends an invocation leaves is_updating False; and an
\* invocation is skipped only while another one is still outstanding, so
\* cycles scheduled after a failed one run.
C24_FailuresStayInside ==
    [][\A i \in Polls :
          /\ polls'[i].pc # "propagated"
          /\ (Outstanding(i) /\ polls'[i].pc \notin {"waiting", "updating"}) =>
                 /\ polls'[i].pc = "returned"
                 /\ ~is_updating'
          /\ (polls[i].pc = "pending" /\ polls'[i].pc = "skipped") =>
                 \E j \in Polls : Outstanding(j)]_vars

\* An invocation that followed a failed one has run to its end.
C24_Witness ==
    \E i, j \in Polls :
        /\ i < j
        /\ Failed(i)
        /\ polls[i].pc = "returned"
        /\ polls[j].pc = "returned"
        /\ ~is_updating

\* C27: at most one invocation of update_data_collector is past the
\* is_updating check and not yet finished.
C27_OnePollAtATime ==
    \A i, j \in Polls : (Outstanding(i) /\ Outstanding(j)) => i = j

\* ========================================================================
\*  Properties of the checksum bytes (SpecCrc)
\* ========================================================================

\* '(' (0x28), CR (0x0D) and LF (0x0A)
ReservedBytes == {40, 13, 10}

\* C25: whatever the checksum, neither of the two checksum bytes the
\* encoders place in an ASCII frame is '(', CR or LF; the bytes 0..255 all
\* occur as the high and as the low byte.
C25_NoReservedCrcByte ==
    crc_placed # <<>> =>
        /\ crc_placed[1] \notin ReservedBytes
        /\ crc_placed[2] \notin ReservedBytes

\* A checksum of CR and '(' has been placed, as 0x0E and 0x29.
C25_Witness ==
    /\ HighByte(crc_value) = 13
    /\ LowByte(crc_value) = 40
    /\ crc_placed = <<14, 41, 13>>

\* ========================================================================
\*  Properties of the transaction ids of a cycle (SpecSnapshot)
\* ========================================================================

\* The transaction id in the first two bytes of a response.
TransactionIdOf(hex) == FromBytesBig(FromHex(hex)[1], FromHex(hex)[2])

Carries(k) ==
    /\ k <= Len(bulk.responses)
    /\ k <= Len(requests)
    /\ Len(bulk.responses[k]) >= 4
    /\ TransactionIdOf(bulk.responses[k]) = requests[k]

\* C26: a register group has decoded words, and a command a response text,
\* only from a response that carries the transaction id of its request.
C26_OnlyOwnTransactionId ==
    /\ (protocol = "numerical" /\ snap_pc \in {"merge", "build", "done"}) =>
            \A i \in 1..Len(results) :
                (results[i].kind = "list" /\ results[i].values # <<>>) => Carries(i)
    /\ (protocol = "ascii" /\ snap_pc \in {"parse", "build", "done"}) =>
            \A k \in 1..Len(CommandMap) :
                CommandMap[k] \in DOMAIN command_responses => Carries(k)

\* ========================================================================
\*  Properties of the session after a cycle (SpecSnapshot)
\* ========================================================================

\* get_all_data returned five None.
NoSubRecords ==
    /\ snap_pc = "done"
    /\ all_data.outcome = "returned"
    /\ all_data.battery = Absent
    /\ all_data.pv = Absent
    /\ all_data.grid = Absent
    /\ all_data.output = Absent
    /\ all_data.system = Absent

\* C28: when get_all_data has returned no sub-record, the connection of the
\* client is no longer established.
C28_FailedCycleDisconnects == NoSubRecords => ~client_connected

\* ========================================================================
\*  Properties of the connection attempts (SpecDiscovery)
\* ========================================================================

\* C29: a discovery datagram is sent only while the listener is open, by
\* AsyncAsciiClient.connect and by ModbusClient.send alike, and an attempt of
\* ModbusClient.send that gets to its listener has sent exactly one.
C29_ListenerBeforeDiscovery ==
    [][/\ (udp_sent' # udp_sent) => server = "listening"
       /\ (mc_datagrams' > mc_datagrams) => mc_listening
       /\ (mc_pc' = "accept") => mc_datagrams' = 1]_vars

\* ========================================================================
\*  Properties of the merge of the decoded words (SpecSnapshot)
\* ========================================================================

\* The words of group i cover entry k of the register map.
Covers(i, k) ==
    /\ results[i].kind = "list"
    /\ register_groups[i][1] <= register_map[k].address
    /\ register_map[k].address < register_groups[i][1] + register_groups[i][2]
    /\ register_map[k].address - register_groups[i][1] < Len(results[i].values)

\* The word of entry k in the words of group i.
WordOf(i, k) == results[i].values[register_map[k].address - register_groups[i][1] + 1]

\* C30: every quantity whose address lies in the span of a decoded group, at
\* an index the decoded words have, has the value processor(word) when it has
\* a processor and word * scale_factor otherwise, quantities that share an
\* address included; a quantity in no decoded span has no value.
C30_ValuesFromWords ==
    (protocol = "numerical" /\ snap_pc \in {"build", "done"}) =>
        \A k \in 1..Len(register_map) :
            /\ \A i \in 1..Len(register_groups) :
                 Covers(i, k) =>
                    /\ register_map[k].name \in DOMAIN values
                    /\ values[register_map[k].name] =
                          IF register_map[k].processor = "int"
                          THEN Number(WordOf(i, k), 1)
                          ELSE Number(WordOf(i, k), register_map[k].scale)
            /\ (~\E i \in 1..Len(register_groups) :
                     /\ results[i].kind = "list"
                     /\ InGroup(register_map[k].address, register_groups, i)) =>
                 register_map[k].name \notin DOMAIN values

\* Two quantities at one address with different scale factors, a quantity
\* with a processor, and a quantity left without a value, in one cycle.
C30_Witness ==
    /\ protocol = "numerical"
    /\ snap_pc = "done"
    /\ \E i \in 1..Len(register_groups) : \E j, k \in 1..Len(register_map) :
         /\ j # k
         /\ register_map[j].address = register_map[k].address
         /\ register_map[j].scale # register_map[k].scale
         /\ Covers(i, j) /\ Covers(i, k)
         /\ WordOf(i, k) # 0
    /\ \E i \in 1..Len(register_groups) : \E k \in 1..Len(register_map) :
         Covers(i, k) /\ register_map[k].processor = "int"

\* Some words of a group are missing: the quantities behind them have no
\* value, those before them have theirs.
PartialWordsMerged ==
    /\ protocol = "numerical"
    /\ snap_pc = "done"
    /\ \E i \in 1..Len(register_groups) : \E j, k \in 1..Len(register_map) :
         /\ Covers(i, j)
         /\ InGroup(register_map[k].address, register_groups, i)
         /\ ~Covers(i, k)
         /\ results[i].kind = "list"
         /\ register_map[k].name \notin DOMAIN values

\* The quantities of the register map that the model does not support.
Unsupported == {k \in 1..Len(register_map) : register_map[k].address = 0}

\* C31: no register group has address 0 in its span, and a quantity whose
\* configured address is 0 has no value, whatever the responses were.
C31_AddressZeroNeverRead ==
    protocol = "numerical" =>
        /\ \A i \in 1..Len(register_groups) :
             /\ register_groups[i][1] > 0
             /\ ~InGroup(0, register_groups, i)
        /\ \A k \in Unsupported : register_map[k].name \notin DOMAIN values

\* A cycle on a map with unsupported quantities where the supported ones
\* got their values, after well-formed and after malformed responses.
C31_Witness ==
    /\ protocol = "numerical"
    /\ snap_pc = "done"
    /\ Unsupported # {}
    /\ register_groups # <<>>
    /\ \E k \in 1..Len(register_map) : register_map[k].name \in DOMAIN values
    /\ \E i \in 1..Len(register_groups) :
         results[i].kind = "list" /\ Len(results[i].values) < register_groups[i][2]

\* ========================================================================
\*  Layout of the request frames (SpecCodec)
\* ========================================================================

\* The bytes of the frame that create_request returned as a hex string.
Built == FromHex(response)

\* The 16-bit number in bytes i and i + 1 of the frame, high byte first.
BigEndian(frame, i) == frame[i] * 256 + frame[i + 1]

Created == request # NoRequest /\ codec_pc # "encode"

\* C32: a register read is a frame of exactly 16 bytes: transaction id high
\* byte first, protocol id 0x0001, length field 10 (the bytes after it), FF 04,
\* unit id, function code, address and count high byte first, then the Modbus
\* CRC of the six bytes from the unit id on, low byte then high byte. An ASCII
\* command of n bytes has n + 5 in the length field, FF 04, the command, the
\* adjusted XMODEM CRC high byte then low byte, and ends with 0x0D.
C32_RequestLayout ==
    Created =>
        /\ Len(response) = 2 * Len(Built)
        /\ BigEndian(Built, 1) = request.transaction_id
        /\ BigEndian(Built, 3) = 1
        /\ BigEndian(Built, 5) = Len(Built) - 6
        /\ Built[7] = 255 /\ Built[8] = 4
        /\ IF request.ascii_command = NoCommand
           THEN LET crc == crc16_modbus(SubSeq(Built, 9, 14)) IN
                /\ Len(Built) = 16
                /\ BigEndian(Built, 5) = 10
                /\ Built[9] = request.unit_id
                /\ Built[10] = request.function_code
                /\ BigEndian(Built, 11) = request.register_address
                /\ BigEndian(Built, 13) = request.register_count
                /\ Built[15] = crc % 256
                /\ Built[16] = crc \div 256
           ELSE LET n == Len(request.ascii_command)
                    crc == crc16_xmodem(SubSeq(Built, 9, 8 + n)) IN
                /\ Len(Built) = n + 11
                /\ BigEndian(Built, 5) = n + 5
                /\ SubSeq(Built, 9, 8 + n) = EncodeAscii(request.ascii_command)
                /\ Built[n + 9] = adjust_crc_byte(crc \div 256)
                /\ Built[n + 10] = adjust_crc_byte(crc % 256)
                /\ Built[n + 11] = 13

\* A register read with all sixteen bits of id, address and count set, and
\* whose two checksum bytes differ.
C32_Witness ==
    /\ Created
    /\ request.ascii_command = NoCommand
    /\ request.transaction_id = 65535
    /\ request.register_address = 65535
    /\ request.register_count = 65535
    /\ Len(Built) = 16
    /\ Built[15] # Built[16]

\* An ASCII command has been framed.
AsciiRequestBuilt ==
    /\ Created
    /\ request.ascii_command = <<"Q", "P", "I", "G", "S">>
    /\ Built[14] # Built[15]

\* ========================================================================
\*  Shape of the register groups (SpecGroups)
\* ========================================================================

\* The groups whose span holds address a.
GroupsWith(a) ==
    {k \in 1..Len(register_groups) :
        GroupStart(register_groups[k]) <= a /\ a <= GroupEnd(register_groups[k])}

\* C37: the groups are in strictly ascending order, the start of each more
\* than 10 above the end of the one before, so no two of them share an
\* address; every address of the map above 0 lies in exactly one group; and
\* every group has at least one address and starts and ends on an address of
\* the map.
C37_GroupsPartitionAddresses ==
    snap_pc = "read" =>
        /\ \A j, k \in 1..Len(register_groups) :
             j < k => GroupStart(register_groups[k]) - GroupEnd(register_groups[j]) > GapTolerance
        /\ \A a \in Wanted : Cardinality(GroupsWith(a)) = 1
        /\ \A k \in 1..Len(register_groups) :
             /\ register_groups[k][2] >= 1
             /\ GroupStart(register_groups[k]) \in Wanted
             /\ GroupEnd(register_groups[k]) \in Wanted
        /\ (Wanted = {}) = (register_groups = <<>>)

\* A map given out of order, with an unsupported quantity, whose groups are
\* as close as the tolerance lets them be: 11 apart.
C37_Witness ==
    /\ snap_pc = "read"
    /\ Len(register_groups) >= 2
    /\ \E i \in 1..Len(register_map) : register_map[i].address = 0
    /\ \E i \in 1..(Len(register_map) - 1) :
         register_map[i].address > register_map[i + 1].address /\ register_map[i + 1].address > 0
    /\ \E k \in 1..(Len(register_groups) - 1) :
         GroupStart(register_groups[k + 1]) = GroupEnd(register_groups[k]) + GapTolerance + 1

\* ========================================================================
\*  The lock of DataCollector (SpecScheduler)
\* ========================================================================

\* _do_update of invocation i is running.
InDoUpdate(i) == polls[i].pc = "updating"

\* C35: no two _do_update executions overlap, and the lock is held exactly
\* while one runs: once update_data has ended, by returning, by an exception,
\* by its own timeout or by the timeout of the scheduler, the lock is free
\* for the next update_data.
C35_LockHeldOnlyWhileUpdating ==
    /\ \A i, j \in Polls : (InDoUpdate(i) /\ InDoUpdate(j)) => i = j
    /\ \A i \in Polls : InDoUpdate(i) <=> update_lock = i
    /\ (\A i \in Polls : ~InDoUpdate(i)) => update_lock = 0

\* An invocation that was forced while the one before held the lock runs
\* _do_update after that one was ended by a timeout.
C35_Witness ==
    \E i, j \in Polls :
        /\ i < j
        /\ polls[i].result \in {"TimeoutError", "Exception"}
        /\ polls[j].forced
        /\ InDoUpdate(j)
        /\ update_lock = j

\* ========================================================================
\*  The battery record of the ASCII path (SpecSnapshot)
\* ========================================================================

\* The QPIGS block was decoded in this cycle: its battery fields are in
\* `values`.
QpigsDecoded ==
    /\ protocol = "ascii"
    /\ snap_pc = "done"
    /\ all_data.outcome = "returned"
    /\ {"battery_voltage", "battery_charging_current", "battery_discharge_current",
        "battery_soc"} \subseteq DOMAIN values

\* a - b, and a = b as numbers
Minus(a, b) == Number(a.num * b.den - b.num * a.den, a.den * b.den)
SameNumber(a, b) == a.num * b.den = b.num * a.den

\* C33: on the ASCII path, a cycle whose QPIGS response was decoded returns a
\* battery record whose current is the charging current minus the discharge
\* current.
C33_BatteryFromQpigs ==
    QpigsDecoded =>
        /\ all_data.battery.present
        /\ SameNumber(all_data.battery.fields.current,
                      Minus(values["battery_charging_current"],
                            values["battery_discharge_current"]))

\* ========================================================================
\*  Responses that carry fewer words than were asked for (SpecSnapshot)
\* ========================================================================

\* The bytes of the response to the read of group i.
ResponseTo(i) == FromHex(bulk.responses[i])

\* The length field of that response.
Declared(i) == FromBytesBig(ResponseTo(i)[5], ResponseTo(i)[6])

\* The response to group i has a valid envelope: at least 9 bytes, all the
\* bytes its length field announces, and FF 04 and a byte count among them.
ValidEnvelope(i) ==
    /\ bulk.outcome = "returned"
    /\ i <= Len(bulk.responses)
    /\ Len(ResponseTo(i)) >= 9
    /\ Len(ResponseTo(i)) >= 6 + Declared(i)
    /\ Declared(i) >= 3

\* The whole words in the announced payload of that response.
CarriedWords(i) == (Declared(i) - 3) \div 2

\* The offset of entry k of the map in group i.
Offset(i, k) == register_map[k].address - register_groups[i][1]

\* The response to group i has a valid envelope and fewer words than the
\* group has registers.
FewerWords(i) == ValidEnvelope(i) /\ CarriedWords(i) < register_groups[i][2]

\* C38: a response with a valid envelope and only m words for a group of
\* more registers is decoded to the first m registers of the inverter, the
\* quantities of the group at offsets below m get a value, and those at
\* offsets m and above get none (not 0).
C38_MissingWordsGiveNoValue ==
    (protocol = "numerical" /\ snap_pc \in {"build", "done"}) =>
        \A i \in 1..Len(register_groups) :
            FewerWords(i) =>
                /\ results[i].kind = "list"
                /\ \E file \in RegisterFiles :
                     results[i].values =
                        [w \in 1..CarriedWords(i) |->
                            Content(file, register_groups[i][1] + w - 1)]
                /\ \A k \in 1..Len(register_map) :
                     InGroup(register_map[k].address, register_groups, i) =>
                        (register_map[k].name \in DOMAIN values <=> Offset(i, k) < CarriedWords(i))

\* A group of several registers got a response with some of its words: the
\* quantity at the first offset has a value that is not 0, one at a later
\* offset has none.
C38_Witness ==
    /\ protocol = "numerical"
    /\ snap_pc = "done"
    /\ \E i \in 1..Len(register_groups) : \E j, k \in 1..Len(register_map) :
         /\ FewerWords(i)
         /\ CarriedWords(i) >= 1
         /\ InGroup(register_map[j].address, register_groups, i)
         /\ InGroup(register_map[k].address, register_groups, i)
         /\ Offset(i, j) = 0
         /\ Offset(i, k) >= CarriedWords(i)
         /\ register_map[j].name \in DOMAIN values
         /\ values[register_map[j].name].num # 0
         /\ register_map[k].name \notin DOMAIN values

\* A group of one register got a response with a valid envelope and no word.
NoWordAtAll ==
    /\ protocol = "numerical"
    /\ snap_pc = "done"
    /\ \E i \in 1..Len(register_groups) :
         FewerWords(i) /\ CarriedWords(i) = 0 /\ results[i] = ResultList(<<>>)

====
